---------------------------- MODULE Spec2Model ----------------------------
(***************************************************************************)
(* A model of the file-backed page store of oli-cms                        *)
(* (src/utils/fileStorage.js): the path resolver getSafeFilePath, and the  *)
(* asynchronous operations readPage, writePage and deletePage, each cut    *)
(* into one action per await, running against a small file system.         *)
(*                                                                         *)
(* Conventions.                                                            *)
(*  - A JavaScript string is a sequence of one-character strings, so that  *)
(*    trim() and the PAGE_ID_PATTERN test are computed character by        *)
(*    character.  A JavaScript value is a record [t, s]: its typeof-like   *)
(*    tag and, for a string or a number, its characters.                   *)
(*  - A path is a sequence of segments, each a sequence of tokens (the     *)
(*    characters of an id, and the suffixes ".json", ".tmp", a hex name).  *)
(*  - A time stamp is a natural number of clock milliseconds; 0 stands     *)
(*    for an absent (falsy) time stamp.                                    *)
(***************************************************************************)
EXTENDS Integers, Sequences, FiniteSets, TLC

VARIABLES
    files,      \* the regular files that exist: path -> content
    dirExists,  \* whether PAGES_DIR exists
    clock,      \* the wall clock, in milliseconds
    faults,     \* injected I/O failures so far
    calls,      \* calls started so far
    pc,         \* per task: the await it is suspended at
    call,       \* per task: the operation called and its arguments
    lv,         \* per task: the local variables of the running call
    before,     \* per task (history): the destination and the clock at call start
    result,     \* per task: what the last finished call returned or threw
    history,    \* (history) every content a page file has had when complete
    customGenerators  \* the generators router's store of custom generators: id -> definition

vars == <<files, dirExists, clock, faults, calls, pc, call, lv, before, result,
          history, customGenerators>>

---------------------------------------------------------------------------
(* Bounds of the model.                                                    *)

NProcs == 2
MaxCalls == 2
MaxClock == 3
MaxFaults == 1
MaxPages == 3
MaxEntries == 3
MaxIdLen == 3
MaxSections == 4

Procs == 1..NProcs

---------------------------------------------------------------------------
(* JavaScript values.                                                      *)

Str(s) == [t |-> "string", s |-> s]
Undefined == [t |-> "undefined", s |-> <<>>]
Null == [t |-> "null", s |-> <<>>]
Num42 == [t |-> "number", s |-> <<"4", "2">>]
Zero == [t |-> "number", s |-> <<"0">>]
EmptyObject == [t |-> "object", s |-> <<>>]
Infinity == [t |-> "number", s |-> <<"Infinity">>]

\* The values v for which !v is true.
Falsy(v) ==
    \/ v.t \in {"undefined", "null"}
    \/ v.t = "string" /\ v.s = <<>>
    \/ v.t = "number" /\ v.s = <<"0">>

WhiteSpace == {" ", "\t", "\n", "\r"}

\* String.prototype.trim: what lies between the first and the last
\* character that is no white space.
Trim(s) ==
    LET black == {i \in 1..Len(s) : s[i] \notin WhiteSpace} IN
    IF black = {} THEN <<>>
    ELSE SubSeq(s, CHOOSE i \in black : \A j \in black : i <= j,
                   CHOOSE i \in black : \A j \in black : i >= j)

\* c.repeat(n)
Repeat(c, n) == [i \in 1..n |-> c]

UpperCase ==
    <<"A", "B", "C", "D", "E", "F", "G", "H", "I", "J", "K", "L", "M",
      "N", "O", "P", "Q", "R", "S", "T", "U", "V", "W", "X", "Y", "Z">>

LowerCase ==
    <<"a", "b", "c", "d", "e", "f", "g", "h", "i", "j", "k", "l", "m",
      "n", "o", "p", "q", "r", "s", "t", "u", "v", "w", "x", "y", "z">>

\* s.toLowerCase()
ToLowerCase(s) ==
    [i \in 1..Len(s) |->
        IF \E k \in 1..Len(UpperCase) : UpperCase[k] = s[i]
        THEN LowerCase[CHOOSE k \in 1..Len(UpperCase) : UpperCase[k] = s[i]]
        ELSE s[i]]

\* s.includes(q)
Includes(s, q) ==
    \E i \in 1..(Len(s) + 1) :
        i + Len(q) - 1 <= Len(s) /\ SubSeq(s, i, i + Len(q) - 1) = q

---------------------------------------------------------------------------
(* Path security.                                                          *)

LengthLimitOffByOne == 100 + 1

MAX_PAGE_ID_LENGTH == 100

WordChars ==
    {"a", "b", "c", "d", "e", "f", "g", "h", "i", "j", "k", "l", "m",
     "n", "o", "p", "q", "r", "s", "t", "u", "v", "w", "x", "y", "z",
     "A", "B", "C", "D", "E", "F", "G", "H", "I", "J", "K", "L", "M",
     "N", "O", "P", "Q", "R", "S", "T", "U", "V", "W", "X", "Y", "Z",
     "0", "1", "2", "3", "4", "5", "6", "7", "8", "9", "_", "-"}

PatternNoCharClass(s) == Len(s) >= 1

\* PAGE_ID_PATTERN.test(s), for /^[a-zA-Z0-9_-]+$/
PAGE_ID_PATTERN(s) == Len(s) >= 1 /\ \A i \in 1..Len(s) : s[i] \in WordChars

\* path.join(__dirname, '..', 'data', 'pages')
PAGES_DIR == << <<"app">>, <<"data">>, <<"pages">> >>

\* The segments of a relative path: its tokens split at "/".
RECURSIVE SplitSep(_)
SplitSep(s) ==
    LET seps == {i \in 1..Len(s) : s[i] = "/"} IN
    IF seps = {} THEN <<s>>
    ELSE LET first == CHOOSE i \in seps : \A j \in seps : i <= j IN
         <<SubSeq(s, 1, first - 1)>> \o SplitSep(SubSeq(s, first + 1, Len(s)))

\* path.normalize on segments: "" and "." are dropped, ".." drops its parent.
RECURSIVE Normalize(_, _)
Normalize(done, todo) ==
    IF todo = <<>> THEN done
    ELSE IF Head(todo) \in {<<>>, <<".">>} THEN Normalize(done, Tail(todo))
    ELSE IF Head(todo) = <<".", ".">>
         THEN Normalize(IF done = <<>> THEN <<>>
                        ELSE SubSeq(done, 1, Len(done) - 1), Tail(todo))
    ELSE Normalize(Append(done, Head(todo)), Tail(todo))

\* path.resolve(path.join(dir, name)) for an absolute dir
PathJoin(dir, name) == Normalize(dir, SplitSep(name))

\* resolvedPath.startsWith(resolvedPagesDir + path.sep)
StartsWithDir(path, dir) ==
    /\ Len(path) > Len(dir)
    /\ SubSeq(path, 1, Len(dir)) = dir

NoPath == <<>>

\* const trimmedId = pageId.trim()
TrimmedId(pageId) == Trim(pageId.s)

getSafeFilePath(pageId) ==
    IF Falsy(pageId) \/ pageId.t # "string"
    THEN [code |-> "INVALID_PAGE_ID", path |-> NoPath]
    ELSE LET trimmedId == TrimmedId(pageId) IN
    IF Len(trimmedId) = 0 \/ Len(trimmedId) > MAX_PAGE_ID_LENGTH
    THEN [code |-> "INVALID_PAGE_ID", path |-> NoPath]
    ELSE IF ~PAGE_ID_PATTERN(trimmedId)
    THEN [code |-> "INVALID_PAGE_ID", path |-> NoPath]
    ELSE LET fileName == Append(trimmedId, ".json")
             resolvedPath == PathJoin(PAGES_DIR, fileName)
         IN
    IF ~StartsWithDir(resolvedPath, PAGES_DIR)
    THEN [code |-> "PATH_TRAVERSAL", path |-> NoPath]
    ELSE [code |-> "OK", path |-> resolvedPath]

---------------------------------------------------------------------------
(* Page documents, JSON texts and the file system.                         *)

\* A parsed JSON value or an in-memory page object.  For an object (t =
\* "object") the fields are its properties, metadata.created and
\* metadata.updated flattened into created and updated; a property that
\* is absent is Undefined (or 0 for a time stamp); sections is
\* content.sections, each section with its id, type and order, and
\* attachments the records of the uploaded files.  slug stands for every
\* property the store does not interpret (slug, status, content, ...).
Page(id, title, created, updated) ==
    [t |-> "object", id |-> id, title |-> title, slug |-> Undefined,
     created |-> created, updated |-> updated, sections |-> <<>>,
     attachments |-> <<>>, generator |-> Undefined]

NonObject(t) ==
    [t |-> t, id |-> Undefined, title |-> Undefined, slug |-> Undefined,
     created |-> 0, updated |-> 0, sections |-> <<>>, attachments |-> <<>>,
     generator |-> Undefined]

NoPage == NonObject("undefined")

REQUIRED_PAGE_FIELDS == <<"id", "title">>

\* A generator definition, as far as the router reads it: its id and name,
\* whether one of its fields is required, and whether its template has an
\* array of sections.
Generator(id, name, required, sections) ==
    [t |-> "object", id |-> Str(id), name |-> Str(name),
     required |-> required, sections |-> sections]

NoGenerator ==
    [t |-> "undefined", id |-> Undefined, name |-> Undefined,
     required |-> FALSE, sections |-> FALSE]

\* A member of Object.prototype (a function, or for __proto__ the
\* prototype itself): it has none of a definition's properties.
Inherited == [NoGenerator EXCEPT !.t = "inherited"]

\* page[field], for a value that is neither null nor undefined: a
\* primitive or an array has no such property.
Field(page, field) ==
    IF page.t # "object" THEN Undefined
    ELSE IF field = "id" THEN page.id ELSE page.title

\* The content of a file: a complete JSON text (k = "json", standing for
\* the text of the value v), a strict prefix of a text being written (k =
\* "partial"), or random bytes (k = "random").  ino names the inode, so
\* that a write through an open descriptor reaches the file it opened and
\* not whatever the path names by then.
Content(k, v, ino) == [k |-> k, v |-> v, ino |-> ino]

\* No file (the value of `before` for a missing destination).
Absent == Content("absent", NoPage, 0)

\* The bytes of a file, whatever its inode.
Text(c) == [k |-> c.k, v |-> c.v]

\* The JSON text of a property value: Infinity and NaN are written as null.
JSONvalue(v) == IF v = Infinity THEN Null ELSE v

\* JSON.stringify(value, null, 2): the text of an object, standing for the
\* value JSON.parse reads back from it.
JSONstringify(v) ==
    [k |-> "json",
     v |-> [v EXCEPT !.id = JSONvalue(@), !.title = JSONvalue(@),
                     !.slug = JSONvalue(@)]]

\* JSON.parse(content): a strict prefix of an object's text and random
\* bytes do not parse.
JSONparse(c) ==
    IF c.k = "json" THEN [name |-> "OK", v |-> c.v]
    ELSE [name |-> "SyntaxError", v |-> NoPage]

Exists(path) == path \in DOMAIN files

Remove(fs, path) == [f \in (DOMAIN fs) \ {path} |-> fs[f]]

Put(fs, path, c) == [f \in (DOMAIN fs) \cup {path} |-> IF f = path THEN c ELSE fs[f]]

\* A write through a descriptor opened on inode ino.
WriteFd(fs, ino, k, v) ==
    [f \in DOMAIN fs |-> IF fs[f].ino = ino THEN Content(k, v, ino) ELSE fs[f]]

InodesInUse == {files[f].ino : f \in DOMAIN files} \cup {lv[q].fd : q \in Procs}

\* The inode a newly created file gets.
NewInode == CHOOSE n \in 1..(Cardinality(InodesInUse) + 1) : n \notin InodesInUse

\* The outcomes of one I/O request: it succeeds, or (a bounded number of
\* times) fails with a lower-level error such as EIO, EACCES or ENOSPC.
IoOutcomes == IF faults < MaxFaults THEN {"ok", "EIO"} ELSE {"ok"}

Fault(io) == IF io = "ok" THEN faults ELSE faults + 1

\* The error of a request on a path that must exist.
Errno(io, path) ==
    IF io # "ok" THEN io ELSE IF ~Exists(path) THEN "ENOENT" ELSE "ok"

---------------------------------------------------------------------------
(* Tasks.                                                                  *)

\* The jsonData argument of importPage: a string (text) holding the JSON
\* text of the value v (k = "json") or no JSON text at all (k = "random"),
\* or the value v itself.
NoData == [text |-> FALSE, k |-> "json", v |-> NoPage]

\* The backupJson argument of restoreFromBackup: a string that holds no
\* JSON text (k = "random") or the text of a value of type t, with or
\* without a version, whose pages are an array or not.
NoBundle ==
    [k |-> "json", t |-> "undefined", version |-> FALSE, isArray |-> FALSE,
     pages |-> <<>>]

\* The body of a request to the pages router, after its validators ran
\* (for PUT, id is the id parameter of the path).
NoBody ==
    [id |-> Undefined, title |-> Undefined, slug |-> Undefined,
     generator |-> Undefined, type |-> "", sectionId |-> 0, file |-> ""]

\* The arguments of a call.  For importPage pageData and pageId also hold
\* its locals of these names.
NoCall ==
    [op |-> "none", pageId |-> Undefined, pageData |-> NoPage,
     secureDelete |-> FALSE, overwrite |-> FALSE, query |-> Undefined,
     jsonData |-> NoData, bundle |-> NoBundle, body |-> NoBody]

NoLocals ==
    [filePath |-> NoPath, isNew |-> TRUE, existingPage |-> NoPage,
     finalPageData |-> NoPage, tempPath |-> NoPath, fd |-> 0, syscall |-> "",
     errno |-> "", page |-> NoPage, status |-> 0,
     todo |-> <<>>, pages |-> <<>>, total |-> 0, restored |-> 0,
     skipped |-> 0, errors |-> <<>>]

\* What a call returned (code OK: a page, or a path) or threw (code: the
\* error's code; syscall: the request whose failure it wraps; cause: the
\* code or name of its originalError, if it has one).
NoResult ==
    [code |-> "NONE", page |-> NoPage, path |-> NoPath, syscall |-> "",
     cause |-> "", status |-> 0, generator |-> NoGenerator,
     isCustom |-> FALSE, generators |-> {},
     exists |-> FALSE, pages |-> <<>>, version |-> "", total |-> 0,
     restored |-> 0, skipped |-> 0, errors |-> <<>>]

Thrown(code) == [NoResult EXCEPT !.code = code]

WrappedNoCause(code, cause) == Thrown(code)

\* An error with the code, whose originalError is cause.
Wrapped(code, cause) == [NoResult EXCEPT !.code = code, !.cause = cause]

Returned(page) == [NoResult EXCEPT !.code = "OK", !.page = page]

NoStart ==
    [file |-> Absent, time |-> 0, store |-> << >>, dir |-> FALSE,
     pcs |-> [q \in Procs |-> "idle"],
     prev |-> [op |-> "none", pageId |-> Undefined, secureDelete |-> FALSE,
               code |-> "NONE", page |-> NoPage]]

\* The call of task p has returned or thrown.
Finished(p) == pc[p] = "idle" /\ call[p].op # "none"

\* Task p's call ends with r.
Finish(p, r) ==
    /\ pc' = [pc EXCEPT ![p] = "idle"]
    /\ lv' = [lv EXCEPT ![p] = NoLocals]
    /\ result' = [result EXCEPT ![p] = r]

\* Task p goes on to the await named step.
Goto(p, step, locals) ==
    /\ pc' = [pc EXCEPT ![p] = step]
    /\ lv' = [lv EXCEPT ![p] = locals]
    /\ UNCHANGED result

\* A call starts: its arguments, the store, the destination's content and
\* the task's preceding call are recorded (history).
Begin(p, c, path) ==
    /\ pc[p] = "idle"
    /\ calls < MaxCalls
    /\ calls' = calls + 1
    /\ call' = [call EXCEPT ![p] = c]
    /\ before' = [before EXCEPT ![p] =
                    [file |-> IF path # NoPath /\ Exists(path) THEN files[path]
                              ELSE Absent,
                     time |-> clock,
                     store |-> files,
                     dir |-> dirExists,
                     pcs |-> pc,
                     prev |-> [op |-> call[p].op, pageId |-> call[p].pageId,
                               secureDelete |-> call[p].secureDelete,
                               code |-> result[p].code,
                               page |-> result[p].page]]]

---------------------------------------------------------------------------
(* getSafeFilePath, called on its own (it is exported).                    *)

Resolve(p, ids) ==
    \E pageId \in ids :
        LET safe == getSafeFilePath(pageId) IN
        /\ Begin(p, [NoCall EXCEPT !.op = "getSafeFilePath", !.pageId = pageId],
                 safe.path)
        /\ Finish(p, IF safe.code # "OK" THEN Thrown(safe.code)
                     ELSE [Returned(NoPage) EXCEPT !.path = safe.path])
        /\ UNCHANGED <<files, dirExists, clock, faults, history, customGenerators>>

---------------------------------------------------------------------------
(* readPage                                                                *)

ReadAccepts(parsed) == Returned(parsed.v)

\* What readPage does with the parse of the content it read: page[field]
\* on null throws a TypeError, which is neither a SyntaxError nor one of
\* readPage's own errors.
ReadClassify(parsed) ==
    IF parsed.name = "SyntaxError" THEN Thrown("INVALID_JSON")
    ELSE IF parsed.v.t = "null" THEN Wrapped("READ_ERROR", "TypeError")
    ELSE IF \E i \in 1..Len(REQUIRED_PAGE_FIELDS) :
                Falsy(Field(parsed.v, REQUIRED_PAGE_FIELDS[i]))
         THEN Thrown("INVALID_PAGE_DATA")
    ELSE Returned(parsed.v)

\* readPage after its readFile settled with io.
readPageSettled(path, io) ==
    IF io # "ok" THEN Wrapped("READ_ERROR", io)
    ELSE IF ~Exists(path) THEN Thrown("PAGE_NOT_FOUND")
    ELSE ReadClassify(JSONparse(files[path]))

\* readPage(pageId), up to its first await.
StartRead(p, ids) ==
    \E pageId \in ids :
        LET safe == getSafeFilePath(pageId) IN
        /\ Begin(p, [NoCall EXCEPT !.op = "readPage", !.pageId = pageId], safe.path)
        /\ IF safe.code # "OK"
           THEN Finish(p, Thrown(safe.code))
           ELSE Goto(p, "r_readFile", [NoLocals EXCEPT !.filePath = safe.path])
        /\ UNCHANGED <<files, dirExists, clock, faults, history, customGenerators>>

\* await fsPromises.readFile(filePath, 'utf8'), then the parse and the checks.
R_ReadFile(p) ==
    /\ pc[p] = "r_readFile"
    /\ \E io \in IoOutcomes :
        /\ Finish(p, readPageSettled(lv[p].filePath, io))
        /\ faults' = Fault(io)
    /\ UNCHANGED <<files, dirExists, clock, calls, call, before, history, customGenerators>>

---------------------------------------------------------------------------
(* writePage                                                               *)

HexPool == {"0a", "1b", "2c", "3d"}

\* `${filePath}.${hex}.tmp`
TempPathOf(filePath, hex) ==
    LET n == Len(filePath) IN
    SubSeq(filePath, 1, n - 1) \o << filePath[n] \o <<".", hex, ".tmp">> >>

HexNotRandom(filePath) == HexPool

\* crypto.randomBytes(8).toString('hex'): a name no file and no running
\* call has (8 random bytes repeat with negligible probability).
FreshHex(filePath) ==
    {h \in HexPool :
        /\ ~Exists(TempPathOf(filePath, h))
        /\ \A q \in Procs : lv[q].tempPath # TempPathOf(filePath, h)}

\* The checks of writePage before its first await; the code thrown, or OK.
writePageChecks(pageId, pageData) ==
    IF Falsy(pageData) \/ pageData.t # "object" THEN "INVALID_PAGE_DATA"
    ELSE IF \E i \in 1..Len(REQUIRED_PAGE_FIELDS) :
                Falsy(Field(pageData, REQUIRED_PAGE_FIELDS[i]))
         THEN "INVALID_PAGE_DATA"
    ELSE IF pageData.id # pageId THEN "PAGE_ID_MISMATCH"
    ELSE getSafeFilePath(pageId).code

MetadataKeepsSupplied(pageData, isNew, existingPage, now) ==
    [created |-> IF pageData.created # 0 THEN pageData.created ELSE now,
     updated |-> now]

MetadataKeepsUpdated(pageData, isNew, existingPage, now) ==
    [created |-> IF ~isNew /\ existingPage.created # 0
                 THEN existingPage.created
                 ELSE IF pageData.created # 0 THEN pageData.created ELSE now,
     updated |-> IF pageData.updated # 0 THEN pageData.updated ELSE now]

\* metadata = {...pageData.metadata, updated: now}, then created.
Metadata(pageData, isNew, existingPage, now) ==
    [created |-> IF ~isNew /\ existingPage.created # 0
                 THEN existingPage.created
                 ELSE IF pageData.created # 0 THEN pageData.created ELSE now,
     updated |-> now]

\* finalPageData = {...pageData, metadata}
FinalPageData(pageData, isNew, existingPage, now) ==
    LET metadata == Metadata(pageData, isNew, existingPage, now) IN
    [pageData EXCEPT !.created = metadata.created, !.updated = metadata.updated]

\* importPage before its first await: jsonData parsed and checked.  The
\* code thrown, or OK and pageData.  JSON.parse of the text null gives
\* null, and pageData[field] on null throws a TypeError.
ImportParsed(jsonData) ==
    IF jsonData.text /\ JSONparse(jsonData).name # "OK"
    THEN [code |-> "INVALID_JSON", pageData |-> NoPage]
    ELSE IF ~jsonData.text /\ jsonData.v.t \notin {"object", "array"}
    THEN [code |-> "INVALID_IMPORT_DATA", pageData |-> NoPage]
    ELSE IF jsonData.v.t = "null"
    THEN [code |-> "TypeError", pageData |-> NoPage]
    ELSE IF \E i \in 1..Len(REQUIRED_PAGE_FIELDS) :
                Falsy(Field(jsonData.v, REQUIRED_PAGE_FIELDS[i]))
    THEN [code |-> "INVALID_PAGE_DATA", pageData |-> NoPage]
    ELSE [code |-> "OK", pageData |-> jsonData.v]

\* importPage as far as it goes without I/O: the code thrown, or OK when
\* it waits for the access of pageExists.  For an id that does not resolve
\* pageExists gives false at once and writePage throws.
ImportSync(jsonData) ==
    LET parsed == ImportParsed(jsonData) IN
    IF parsed.code # "OK" THEN parsed.code
    ELSE IF getSafeFilePath(parsed.pageData.id).code # "OK"
    THEN writePageChecks(parsed.pageData.id, parsed.pageData)
    ELSE "OK"

ImportBlockedAlways(exists, overwrite) == exists

\* exists && !overwrite
ImportBlocked(exists, overwrite) == exists /\ ~overwrite

\* An entry of a bundle as the argument of importPage.
EntryData(page) == [text |-> FALSE, k |-> "json", v |-> page]

\* error.code === 'PAGE_EXISTS'
Skipped(code) == code = "PAGE_EXISTS"

\* The body of restoreFromBackup's loop after importPage(page) settled
\* with code; s holds the entries left and the results.  page.id of the
\* catch throws a TypeError for an entry null.
RestoreCatch(s, page, code) ==
    IF code = "OK" THEN [s EXCEPT !.restored = @ + 1]
    ELSE IF Skipped(code) THEN [s EXCEPT !.skipped = @ + 1]
    ELSE IF page.t \in {"null", "undefined"} THEN [s EXCEPT !.thrown = "TypeError"]
    ELSE [s EXCEPT !.errors = Append(@, [pageId |-> page.id, error |-> code])]

\* The loop of restoreFromBackup as far as it goes without I/O: the
\* entries whose import throws before its first await are dealt with.
RECURSIVE RestoreLoop(_)
RestoreLoop(s) ==
    IF s.thrown # "" \/ s.todo = <<>> THEN s
    ELSE LET page == Head(s.todo)
             code == ImportSync(EntryData(page))
         IN IF code = "OK" THEN s
            ELSE RestoreLoop(RestoreCatch([s EXCEPT !.todo = Tail(@)], page, code))

\* restoreFromBackup goes on from the loop state s: it throws, returns the
\* results, or waits for the access of the next entry's pageExists.
RestoreContinue(p, s, total) ==
    IF s.thrown # "" THEN Finish(p, Thrown(s.thrown))
    ELSE IF s.todo = <<>>
    THEN Finish(p, [NoResult EXCEPT !.code = "OK", !.total = total,
                                    !.restored = s.restored,
                                    !.skipped = s.skipped,
                                    !.errors = s.errors])
    ELSE Goto(p, "i_access",
              [NoLocals EXCEPT !.filePath = getSafeFilePath(Head(s.todo).id).path,
                               !.todo = s.todo, !.total = total,
                               !.restored = s.restored, !.skipped = s.skipped,
                               !.errors = s.errors])

\* The response of a handler of the pages router to a store call that
\* settled with r: the handler's success status, or the error is passed to
\* next(error) and answered with err.statusCode || err.status || 500 (the
\* store's errors carry neither).  A call of the store itself settles as r.
Respond(op, r) ==
    IF op \in {"POST /pages", "POST /pages/:id/sections", "POST /upload"}
    THEN [r EXCEPT !.status = IF r.code = "OK" THEN 201 ELSE 500]
    ELSE IF op \in {"PUT /pages/:id", "DELETE /pages/:id/sections/:sectionId"}
    THEN [r EXCEPT !.status = IF r.code = "OK" THEN 200 ELSE 500]
    ELSE r

\* The importPage or writePage task p waits for settles with r: the call
\* ends, the upload handler catches the failure, or the loop of
\* restoreFromBackup goes on.
Settle(p, r) ==
    IF call[p].op = "POST /upload" /\ r.code # "OK"
    THEN Goto(p, "up_catch", lv[p])
    ELSE IF call[p].op # "restoreFromBackup"
    THEN Finish(p, Respond(call[p].op, r))
    ELSE RestoreContinue(p,
             RestoreLoop(RestoreCatch([todo |-> Tail(lv[p].todo),
                                       restored |-> lv[p].restored,
                                       skipped |-> lv[p].skipped,
                                       errors |-> lv[p].errors,
                                       thrown |-> ""],
                                      Head(lv[p].todo), r.code)),
             lv[p].total)

\* The pageData of the writePage that task p runs.
WriteData(p) ==
    IF call[p].op = "restoreFromBackup" THEN Head(lv[p].todo)
    ELSE IF call[p].op \in {"POST /pages", "PUT /pages/:id",
                             "POST /pages/:id/sections",
                             "DELETE /pages/:id/sections/:sectionId",
                             "POST /upload"}
    THEN lv[p].page
    ELSE call[p].pageData

\* writePage(pageId, pageData), up to its first await (the readFile of the
\* readPage it calls).
StartWrite(p, args) ==
    \E arg \in args :
        LET pageId == arg.pageId
            pageData == arg.pageData
            code == writePageChecks(pageId, pageData)
            safe == getSafeFilePath(pageId)
        IN
        /\ Begin(p, [NoCall EXCEPT !.op = "writePage", !.pageId = pageId,
                                   !.pageData = pageData],
                 IF code = "OK" THEN safe.path ELSE NoPath)
        /\ IF code # "OK"
           THEN Finish(p, Thrown(code))
           ELSE Goto(p, "w_readFile", [NoLocals EXCEPT !.filePath = safe.path])
        /\ UNCHANGED <<files, dirExists, clock, faults, history, customGenerators>>

\* existingPage = await readPage(pageId); then ensurePagesDir() is called.
W_ReadFile(p) ==
    /\ pc[p] = "w_readFile"
    /\ \E io \in IoOutcomes :
        LET r == readPageSettled(lv[p].filePath, io) IN
        /\ IF r.code = "OK"
           THEN Goto(p, "w_mkdir", [lv[p] EXCEPT !.isNew = FALSE, !.existingPage = r.page])
           ELSE IF r.code = "PAGE_NOT_FOUND"
           THEN Goto(p, "w_mkdir", lv[p])
           ELSE Settle(p, r)
        /\ faults' = Fault(io)
    /\ UNCHANGED <<files, dirExists, clock, calls, call, before, history, customGenerators>>

\* await ensurePagesDir(); then the metadata, the final page, the temp
\* path and the text are computed and writeFile is called.
W_Mkdir(p) ==
    /\ pc[p] = "w_mkdir"
    /\ \E io \in IoOutcomes :
        /\ faults' = Fault(io)
        /\ IF io # "ok"
           THEN /\ Settle(p, Wrapped("PAGES_DIR_ERROR", io))
                /\ UNCHANGED dirExists
           ELSE /\ dirExists' = TRUE
                /\ FreshHex(lv[p].filePath) # {}
                /\ LET hex == CHOOSE h \in FreshHex(lv[p].filePath) : TRUE IN
                     Goto(p, "w_open",
                          [lv[p] EXCEPT
                             !.finalPageData =
                                 FinalPageData(WriteData(p), lv[p].isNew,
                                               lv[p].existingPage, clock),
                             !.tempPath = TempPathOf(lv[p].filePath, hex)])
    /\ UNCHANGED <<files, clock, calls, call, before, history, customGenerators>>

WriteTargetInPlace(p) == lv[p].filePath

\* The path writeFile writes the text to.
WriteTarget(p) == lv[p].tempPath

\* writeFile(tempPath, ...): the file is opened, created or truncated.
W_Open(p) ==
    /\ pc[p] = "w_open"
    /\ \E io \in IoOutcomes :
        /\ faults' = Fault(io)
        /\ IF io # "ok"
           THEN /\ Goto(p, "w_unlink", [lv[p] EXCEPT !.syscall = "open",
                                                     !.errno = io])
                /\ UNCHANGED files
           ELSE LET ino == IF Exists(WriteTarget(p)) THEN files[WriteTarget(p)].ino
                           ELSE NewInode
                IN
                /\ files' = Put(files, WriteTarget(p), Content("partial", NoPage, ino))
                /\ Goto(p, "w_write", [lv[p] EXCEPT !.fd = ino])
    /\ UNCHANGED <<dirExists, clock, calls, call, before, history, customGenerators>>

\* writeFile(tempPath, jsonContent, ...): the text is written and the file closed.
W_Write(p) ==
    /\ pc[p] = "w_write"
    /\ \E io \in IoOutcomes :
        /\ faults' = Fault(io)
        /\ IF io # "ok"
           THEN /\ Goto(p, "w_unlink", [lv[p] EXCEPT !.fd = 0, !.syscall = "write",
                                                     !.errno = io])
                /\ UNCHANGED files
           ELSE LET text == JSONstringify(lv[p].finalPageData) IN
                /\ files' = WriteFd(files, lv[p].fd, text.k, text.v)
                /\ Goto(p, "w_rename", [lv[p] EXCEPT !.fd = 0])
    /\ UNCHANGED <<dirExists, clock, calls, call, before, history, customGenerators>>

\* await fsPromises.rename(tempPath, filePath)
W_Rename(p) ==
    /\ pc[p] = "w_rename"
    /\ \E io \in IoOutcomes :
        /\ faults' = Fault(io)
        /\ IF io # "ok" \/ ~Exists(lv[p].tempPath)
           THEN /\ Goto(p, "w_unlink",
                        [lv[p] EXCEPT !.syscall = "rename",
                                      !.errno = Errno(io, lv[p].tempPath)])
                /\ UNCHANGED <<files, history>>
           ELSE /\ files' = Remove(Put(files, lv[p].filePath, files[lv[p].tempPath]),
                                 lv[p].tempPath)
                /\ history' = history \cup {Text(files[lv[p].tempPath])}
                /\ Goto(p, "w_chmod", lv[p])
    /\ UNCHANGED <<dirExists, clock, calls, call, before, customGenerators>>

\* await fsPromises.chmod(filePath, FILE_PERMISSIONS); return finalPageData
W_Chmod(p) ==
    /\ pc[p] = "w_chmod"
    /\ \E io \in IoOutcomes :
        /\ faults' = Fault(io)
        /\ IF io # "ok" \/ ~Exists(lv[p].filePath)
           THEN Goto(p, "w_unlink",
                     [lv[p] EXCEPT !.syscall = "chmod",
                                   !.errno = Errno(io, lv[p].filePath)])
           ELSE Settle(p, Returned(lv[p].finalPageData))
    /\ UNCHANGED <<files, dirExists, clock, calls, call, before, history, customGenerators>>

CleanupTargetDestination(p) == lv[p].filePath

\* The path the catch block unlinks.
CleanupTarget(p) == lv[p].tempPath

\* catch: await fsPromises.unlink(tempPath), its own failure ignored;
\* throw WRITE_ERROR.
W_Unlink(p) ==
    /\ pc[p] = "w_unlink"
    /\ \E io \in IoOutcomes :
        /\ faults' = Fault(io)
        /\ files' = IF io = "ok" /\ Exists(CleanupTarget(p))
                    THEN Remove(files, CleanupTarget(p))
                    ELSE files
        /\ Settle(p, [Wrapped("WRITE_ERROR", lv[p].errno) EXCEPT
                         !.syscall = lv[p].syscall])
    /\ UNCHANGED <<dirExists, clock, calls, call, before, history, customGenerators>>

---------------------------------------------------------------------------
(* deletePage                                                              *)

DeleteThrownGeneric(errno) == Wrapped("DELETE_ERROR", errno)

\* What deletePage's catch throws for a failed request.
DeleteThrown(errno) ==
    IF errno = "ENOENT" THEN Thrown("PAGE_NOT_FOUND")
    ELSE Wrapped("DELETE_ERROR", errno)

\* deletePage(pageId, secureDelete), up to its first await.
StartDelete(p, ids) ==
    \E pageId \in ids, secureDelete \in BOOLEAN :
        LET safe == getSafeFilePath(pageId) IN
        /\ Begin(p, [NoCall EXCEPT !.op = "deletePage", !.pageId = pageId,
                                   !.secureDelete = secureDelete], safe.path)
        /\ IF safe.code # "OK"
           THEN Finish(p, Thrown(safe.code))
           ELSE Goto(p, "d_access", [NoLocals EXCEPT !.filePath = safe.path])
        /\ UNCHANGED <<files, dirExists, clock, faults, history, customGenerators>>

\* await fsPromises.access(filePath)
D_Access(p) ==
    /\ pc[p] = "d_access"
    /\ \E io \in IoOutcomes :
        /\ faults' = Fault(io)
        /\ IF Errno(io, lv[p].filePath) # "ok"
           THEN Finish(p, DeleteThrown(Errno(io, lv[p].filePath)))
           ELSE Goto(p, IF call[p].secureDelete THEN "d_stat" ELSE "d_unlink", lv[p])
    /\ UNCHANGED <<files, dirExists, clock, calls, call, before, history, customGenerators>>

\* await fsPromises.stat(filePath); randomData = crypto.randomBytes(stats.size)
D_Stat(p) ==
    /\ pc[p] = "d_stat"
    /\ \E io \in IoOutcomes :
        /\ faults' = Fault(io)
        /\ IF Errno(io, lv[p].filePath) # "ok"
           THEN Finish(p, DeleteThrown(Errno(io, lv[p].filePath)))
           ELSE Goto(p, "d_open", lv[p])
    /\ UNCHANGED <<files, dirExists, clock, calls, call, before, history, customGenerators>>

\* writeFile(filePath, randomData): the file is opened, truncated, and
\* created when it is gone by now.
D_Open(p) ==
    /\ pc[p] = "d_open"
    /\ \E io \in IoOutcomes :
        /\ faults' = Fault(io)
        /\ IF io # "ok"
           THEN /\ Finish(p, DeleteThrown(io))
                /\ UNCHANGED files
           ELSE LET ino == IF Exists(lv[p].filePath) THEN files[lv[p].filePath].ino
                           ELSE NewInode
                IN
                /\ files' = Put(files, lv[p].filePath, Content("partial", NoPage, ino))
                /\ Goto(p, "d_write", [lv[p] EXCEPT !.fd = ino])
    /\ UNCHANGED <<dirExists, clock, calls, call, before, history, customGenerators>>

\* writeFile(filePath, randomData): the bytes are written and the file closed.
D_Write(p) ==
    /\ pc[p] = "d_write"
    /\ \E io \in IoOutcomes :
        /\ faults' = Fault(io)
        /\ IF io # "ok"
           THEN /\ Finish(p, DeleteThrown(io))
                /\ UNCHANGED files
           ELSE /\ files' = WriteFd(files, lv[p].fd, "random", NoPage)
                /\ Goto(p, "d_sync", [lv[p] EXCEPT !.fd = 0])
    /\ UNCHANGED <<dirExists, clock, calls, call, before, history, customGenerators>>

\* fd = await fsPromises.open(filePath, 'r+'); await fd.sync(); await fd.close()
D_Sync(p) ==
    /\ pc[p] = "d_sync"
    /\ \E io \in IoOutcomes :
        /\ faults' = Fault(io)
        /\ IF Errno(io, lv[p].filePath) # "ok"
           THEN Finish(p, DeleteThrown(Errno(io, lv[p].filePath)))
           ELSE Goto(p, "d_unlink", lv[p])
    /\ UNCHANGED <<files, dirExists, clock, calls, call, before, history, customGenerators>>

\* await fsPromises.unlink(filePath); return { success: true, pageId }
D_Unlink(p) ==
    /\ pc[p] = "d_unlink"
    /\ \E io \in IoOutcomes :
        /\ faults' = Fault(io)
        /\ IF Errno(io, lv[p].filePath) # "ok"
           THEN /\ Finish(p, DeleteThrown(Errno(io, lv[p].filePath)))
                /\ UNCHANGED files
           ELSE /\ files' = Remove(files, lv[p].filePath)
                /\ Finish(p, Returned(NoPage))
    /\ UNCHANGED <<dirExists, clock, calls, call, before, history, customGenerators>>

---------------------------------------------------------------------------
(* pageExists                                                              *)

\* pageExists(pageId), up to its await; an id that does not resolve gives
\* false at once.
StartExists(p, ids) ==
    \E pageId \in ids :
        LET safe == getSafeFilePath(pageId) IN
        /\ Begin(p, [NoCall EXCEPT !.op = "pageExists", !.pageId = pageId],
                 safe.path)
        /\ IF safe.code # "OK"
           THEN Finish(p, [NoResult EXCEPT !.code = "OK", !.exists = FALSE])
           ELSE Goto(p, "e_access", [NoLocals EXCEPT !.filePath = safe.path])
        /\ UNCHANGED <<files, dirExists, clock, faults, history, customGenerators>>

AccessibleAlways(errno) == TRUE

\* await fsPromises.access(filePath) settled with errno: true if it
\* succeeded, false on any failure.
Accessible(errno) == errno = "ok"

\* await fsPromises.access(filePath): true, or false on any failure.
E_Access(p) ==
    /\ pc[p] = "e_access"
    /\ \E io \in IoOutcomes :
        /\ faults' = Fault(io)
        /\ Finish(p, [NoResult EXCEPT
                        !.code = "OK",
                        !.exists = Accessible(Errno(io, lv[p].filePath))])
    /\ UNCHANGED <<files, dirExists, clock, calls, call, before, history, customGenerators>>

---------------------------------------------------------------------------
(* getPageStats                                                            *)

StartStatsDeleting(p, ids) == StartDelete(p, ids)

\* getPageStats(pageId), up to its await.
StartStats(p, ids) ==
    \E pageId \in ids :
        LET safe == getSafeFilePath(pageId) IN
        /\ Begin(p, [NoCall EXCEPT !.op = "getPageStats", !.pageId = pageId],
                 safe.path)
        /\ IF safe.code # "OK"
           THEN Finish(p, Thrown(safe.code))
           ELSE Goto(p, "s_stat", [NoLocals EXCEPT !.filePath = safe.path])
        /\ UNCHANGED <<files, dirExists, clock, faults, history, customGenerators>>

\* await fsPromises.stat(filePath): the statistics of the file (only the
\* path is kept), PAGE_NOT_FOUND for ENOENT, STATS_ERROR otherwise.
S_Stat(p) ==
    /\ pc[p] = "s_stat"
    /\ \E io \in IoOutcomes :
        LET errno == Errno(io, lv[p].filePath) IN
        /\ faults' = Fault(io)
        /\ Finish(p, IF errno = "ok"
                     THEN [NoResult EXCEPT !.code = "OK", !.path = lv[p].filePath]
                     ELSE IF errno = "ENOENT" THEN Thrown("PAGE_NOT_FOUND")
                     ELSE Wrapped("STATS_ERROR", errno))
    /\ UNCHANGED <<files, dirExists, clock, calls, call, before, history, customGenerators>>

---------------------------------------------------------------------------
(* importPage and restoreFromBackup                                        *)

\* importPage(jsonData, overwrite), up to its first await (the access of
\* pageExists).
StartImport(p, args) ==
    \E arg \in args :
        LET parsed == ImportParsed(arg.jsonData)
            code == ImportSync(arg.jsonData)
        IN
        /\ Begin(p, [NoCall EXCEPT !.op = "importPage",
                                   !.jsonData = arg.jsonData,
                                   !.overwrite = arg.overwrite,
                                   !.pageData = parsed.pageData,
                                   !.pageId = parsed.pageData.id],
                 IF code = "OK" THEN getSafeFilePath(parsed.pageData.id).path
                 ELSE NoPath)
        /\ IF code # "OK"
           THEN Finish(p, Thrown(code))
           ELSE Goto(p, "i_access",
                     [NoLocals EXCEPT
                        !.filePath = getSafeFilePath(parsed.pageData.id).path])
        /\ UNCHANGED <<files, dirExists, clock, faults, history, customGenerators>>

\* exists = await pageExists(pageId): false on any failure of access; then
\* PAGE_EXISTS, or writePage is called and waits for its readFile.
I_Access(p) ==
    /\ pc[p] = "i_access"
    /\ \E io \in IoOutcomes :
        LET exists == Errno(io, lv[p].filePath) = "ok" IN
        /\ faults' = Fault(io)
        /\ IF ImportBlocked(exists, call[p].overwrite)
           THEN Settle(p, Thrown("PAGE_EXISTS"))
           ELSE Goto(p, "w_readFile", lv[p])
    /\ UNCHANGED <<files, dirExists, clock, calls, call, before, history, customGenerators>>

\* restoreFromBackup(backupJson, overwrite), up to its first await.
StartRestore(p, args) ==
    \E arg \in args :
        LET backup == arg.bundle IN
        /\ Begin(p, [NoCall EXCEPT !.op = "restoreFromBackup",
                                   !.bundle = backup,
                                   !.overwrite = arg.overwrite], NoPath)
        /\ IF backup.k # "json" THEN Finish(p, Thrown("INVALID_BACKUP"))
           ELSE IF backup.t = "null" THEN Finish(p, Thrown("TypeError"))
           ELSE IF ~backup.version \/ ~backup.isArray
           THEN Finish(p, Thrown("INVALID_BACKUP_FORMAT"))
           ELSE RestoreContinue(p,
                    RestoreLoop([todo |-> backup.pages, restored |-> 0,
                                 skipped |-> 0, errors |-> <<>>, thrown |-> ""]),
                    Len(backup.pages))
        /\ UNCHANGED <<files, dirExists, clock, faults, history, customGenerators>>

---------------------------------------------------------------------------
(* listPages, searchPages and backupAllPages: one scan of the directory.   *)

IsAnyFile(f) == TRUE

\* f.endsWith('.json')
IsPageFile(f) == f # <<>> /\ f[Len(f)] # <<>> /\ f[Len(f)][Len(f[Len(f)])] = ".json"

\* path.basename(f, '.json')
BaseName(f) == SubSeq(f[Len(f)], 1, Len(f[Len(f)]) - 1)

\* The summary listPages pushes for a page it read.  status and generator,
\* which the model's pages do not hold, are left out.
Summary(page) ==
    [id |-> page.id,
     title |-> page.title,
     slug |-> IF Falsy(page.slug) THEN Null ELSE page.slug,
     created |-> page.created,
     updated |-> page.updated]

\* a.updated ? new Date(a.updated) : new Date(0), in milliseconds
DateOf(updated) == IF updated = 0 THEN 0 ELSE updated

CompareAscending(a, b) == DateOf(a.updated) - DateOf(b.updated)

\* The comparator of pages.sort: dateB - dateA
Compare(a, b) == DateOf(b.updated) - DateOf(a.updated)

\* x inserted into the sorted s, after the elements it does not precede.
RECURSIVE Insert(_, _)
Insert(s, x) ==
    IF s = <<>> THEN <<x>>
    ELSE IF Compare(s[Len(s)], x) <= 0 THEN Append(s, x)
    ELSE Append(Insert(SubSeq(s, 1, Len(s) - 1), x), s[Len(s)])

\* pages.sort(comparator): Array.prototype.sort is stable.
RECURSIVE SortPages(_)
SortPages(pages) ==
    IF pages = <<>> THEN <<>>
    ELSE Insert(SortPages(SubSeq(pages, 1, Len(pages) - 1)), pages[Len(pages)])

\* query.toLowerCase().trim(), or no query: !query, not a string, or blank.
NoQuery == <<>>

NormalizedQuery(query) ==
    IF Falsy(query) \/ query.t # "string" THEN NoQuery
    ELSE Trim(ToLowerCase(query.s))

\* v?.toLowerCase() throws a TypeError for a v that is neither null, nor
\* undefined, nor a string.
LowerThrows(v) == v.t \notin {"string", "null", "undefined"}

\* v?.toLowerCase().includes(q)
LowerIncludes(v, q) == v.t = "string" /\ Includes(ToLowerCase(v.s), q)

\* What searchPages returns or throws for the list listPages gave it.
SearchResult(allPages, query) ==
    LET q == NormalizedQuery(query) IN
    IF q = NoQuery THEN [NoResult EXCEPT !.code = "OK", !.pages = allPages]
    ELSE IF \E i \in 1..Len(allPages) :
                \/ LowerThrows(allPages[i].id)
                \/ LowerThrows(allPages[i].title)
                \/ LowerThrows(allPages[i].slug)
         THEN Thrown("TypeError")
    ELSE LET Match(page) == \/ LowerIncludes(page.id, q)
                            \/ LowerIncludes(page.title, q)
                            \/ LowerIncludes(page.slug, q)
         IN [NoResult EXCEPT !.code = "OK", !.pages = SelectSeq(allPages, Match)]

PageCountOfFiles(allPages, total) == total

\* pageCount: allPages.length
PageCount(allPages, total) == Len(allPages)

\* What the scan returns once every file was read: the sorted list, the
\* matches, or the bundle as JSON.stringify writes it (total stands for
\* its pageCount).
ScanResult(op, query, pages, total) ==
    IF op = "backupAllPages"
    THEN [NoResult EXCEPT !.code = "OK", !.version = "1.0",
                          !.total = PageCount(pages, total),
                          !.pages = [i \in 1..Len(pages) |-> JSONstringify(pages[i]).v]]
    ELSE IF op = "searchPages" THEN SearchResult(SortPages(pages), query)
    ELSE [NoResult EXCEPT !.code = "OK", !.pages = SortPages(pages)]

\* What the scan throws when a request on the directory fails: listPages
\* wraps the error, backupAllPages rethrows it.
ScanThrown(op, code) ==
    IF op = "backupAllPages" THEN Thrown(code) ELSE Wrapped("LIST_ERROR", code)

CatchPageReadRethrows(pages, r) == [code |-> r.code, pages |-> pages]

\* The catch around readPage in the loop: a warning, and the loop goes on.
CatchPageRead(pages, r) == [code |-> "OK", pages |-> pages]

\* The orders in which readdir may give the files S.
Orders(S) ==
    {s \in [1..Cardinality(S) -> S] :
        \A i, j \in 1..Cardinality(S) : i # j => s[i] # s[j]}

\* listPages(), searchPages(query) or backupAllPages(), up to the first
\* await (the mkdir of ensurePagesDir).
StartScan(p, ops, queries) ==
    \E op \in ops : \E query \in (IF op = "searchPages" THEN queries ELSE {Undefined}) :
        /\ Begin(p, [NoCall EXCEPT !.op = op, !.query = query], NoPath)
        /\ Goto(p, "l_mkdir", NoLocals)
        /\ UNCHANGED <<files, dirExists, clock, faults, history, customGenerators>>

\* await ensurePagesDir(); then readdir is called.
L_Mkdir(p) ==
    /\ pc[p] = "l_mkdir"
    /\ \E io \in IoOutcomes :
        /\ faults' = Fault(io)
        /\ IF io # "ok"
           THEN /\ Finish(p, ScanThrown(call[p].op, "PAGES_DIR_ERROR"))
                /\ UNCHANGED dirExists
           ELSE /\ dirExists' = TRUE
                /\ Goto(p, "l_readdir", lv[p])
    /\ UNCHANGED <<files, clock, calls, call, before, history, customGenerators>>

\* await fsPromises.readdir(PAGES_DIR); the .json files, in the order
\* readdir gave them; readPage of the first one is called.
L_Readdir(p) ==
    /\ pc[p] = "l_readdir"
    /\ \E io \in IoOutcomes :
        /\ faults' = Fault(io)
        /\ IF io # "ok"
           THEN Finish(p, ScanThrown(call[p].op, io))
           ELSE IF ~dirExists
           THEN Finish(p, ScanResult(call[p].op, call[p].query, <<>>, 0))
           ELSE \E jsonFiles \in Orders({f \in DOMAIN files : IsPageFile(f)}) :
                  IF jsonFiles = <<>>
                  THEN Finish(p, ScanResult(call[p].op, call[p].query, <<>>, 0))
                  ELSE Goto(p, "l_read", [lv[p] EXCEPT !.todo = jsonFiles,
                                                      !.total = Len(jsonFiles)])
    /\ UNCHANGED <<files, dirExists, clock, calls, call, before, history, customGenerators>>

\* await readPage(pageId) for the next file: its page or summary is
\* pushed, or its failure caught; after the last file the list is sorted
\* (and filtered) or the bundle made.
L_Read(p) ==
    /\ pc[p] = "l_read"
    /\ LET file == Head(lv[p].todo)
           safe == getSafeFilePath(Str(BaseName(file)))
       IN
       \E io \in IF safe.code = "OK" THEN IoOutcomes ELSE {"ok"} :
        LET r == IF safe.code # "OK" THEN Thrown(safe.code)
                 ELSE readPageSettled(safe.path, io)
            got == IF r.code = "OK"
                   THEN [code |-> "OK",
                         pages |-> Append(lv[p].pages,
                                          IF call[p].op = "backupAllPages"
                                          THEN r.page ELSE Summary(r.page))]
                   ELSE CatchPageRead(lv[p].pages, r)
        IN
        /\ faults' = Fault(io)
        /\ IF got.code # "OK"
           THEN Finish(p, ScanThrown(call[p].op, got.code))
           ELSE IF Tail(lv[p].todo) = <<>>
           THEN Finish(p, ScanResult(call[p].op, call[p].query, got.pages,
                                     lv[p].total))
           ELSE Goto(p, "l_read", [lv[p] EXCEPT !.todo = Tail(@),
                                               !.pages = got.pages])
    /\ UNCHANGED <<files, dirExists, clock, calls, call, before, history, customGenerators>>

ScanSteps(p) ==
    \/ L_Mkdir(p)
    \/ L_Readdir(p)
    \/ L_Read(p)

---------------------------------------------------------------------------
(* exportPage                                                              *)

\* exportPage(pageId) up to its first await (the readFile of readPage).
StartExport(p, ids) ==
    \E pageId \in ids :
        LET safe == getSafeFilePath(pageId) IN
        /\ Begin(p, [NoCall EXCEPT !.op = "exportPage", !.pageId = pageId], safe.path)
        /\ IF safe.code # "OK"
           THEN Finish(p, Thrown(safe.code))
           ELSE Goto(p, "ex_readFile", [NoLocals EXCEPT !.filePath = safe.path])
        /\ UNCHANGED <<files, dirExists, clock, faults, history, customGenerators>>

\* page = await readPage(pageId); return JSON.stringify(page, null, 2):
\* the result is the text, given as the value it parses to.
Ex_ReadFile(p) ==
    /\ pc[p] = "ex_readFile"
    /\ \E io \in IoOutcomes :
        LET r == readPageSettled(lv[p].filePath, io) IN
        /\ Finish(p, IF r.code = "OK"
                     THEN [r EXCEPT !.page = JSONstringify(r.page).v]
                     ELSE r)
        /\ faults' = Fault(io)
    /\ UNCHANGED <<files, dirExists, clock, calls, call, before, history, customGenerators>>

---------------------------------------------------------------------------
(* The clock, the inputs and the specifications.                           *)

\* The first clock value: the time stamps below it are those callers supply.
FirstTick == 2

\* A millisecond passes.
Tick ==
    /\ clock < MaxClock
    /\ clock' = clock + 1
    /\ UNCHANGED <<files, dirExists, faults, calls, pc, call, lv, before, result, history, customGenerators>>

P1 == Str(<<"p", "1">>)
P2 == Str(<<"p", "2">>)
PaddedP1 == Str(<<" ", "p", "1">>)
TitleA == Str(<<"A">>)
TitleB == Str(<<"B">>)

\* The page ids and page objects the calls of the store-wide
\* specifications are made with.
CallIds == {P1}

CallData(pageId) == {Page(pageId, TitleA, 0, 0), Page(pageId, TitleB, 1, 0)}

CallArgs ==
    UNION {{[pageId |-> id, pageData |-> d] : d \in CallData(id)} : id \in CallIds}

SeqIds == {P1, P2, PaddedP1}

SeqData(pageId) ==
    {Page(id, title, created, updated) :
        id \in SeqIds, title \in {TitleA, Str(<<>>)},
        created \in {0, 1}, updated \in {0, 1}}

SeqArgs ==
    UNION {{[pageId |-> id, pageData |-> d] : d \in SeqData(id)} : id \in SeqIds}

\* A page stored by an earlier run of the program.
StoredP1 == Content("json", Page(P1, TitleA, 1, 1), 1)

\* The store when the program starts: the directory missing, empty, or
\* holding a page.
Init ==
    /\ \/ files = << >> /\ dirExists \in BOOLEAN
       \/ files = (getSafeFilePath(P1).path :> StoredP1) /\ dirExists = TRUE
    /\ clock = FirstTick
    /\ faults = 0
    /\ calls = 0
    /\ pc = [p \in Procs |-> "idle"]
    /\ call = [p \in Procs |-> NoCall]
    /\ lv = [p \in Procs |-> NoLocals]
    /\ before = [p \in Procs |-> NoStart]
    /\ result = [p \in Procs |-> NoResult]
    /\ history = {Text(files[f]) : f \in DOMAIN files}
    /\ customGenerators = << >>

ReadSteps(p) == R_ReadFile(p)

---------------------------------------------------------------------------
(* The pages router: POST /pages and PUT /pages/:id.                       *)

\* res.status(status).json(...) with no page of the store in it.
Answer(status) == [NoResult EXCEPT !.code = "HTTP", !.status = status]

\* The characters generateSlug replaces by one hyphen: /[\s_-]+/
SlugSeparators == WhiteSpace \cup {"_", "-"}

\* .replace(/[^\w\s-]/g, '')
RECURSIVE SlugChars(_)
SlugChars(s) ==
    IF s = <<>> THEN <<>>
    ELSE IF Head(s) \in WordChars \cup WhiteSpace
    THEN <<Head(s)>> \o SlugChars(Tail(s))
    ELSE SlugChars(Tail(s))

\* .replace(/[\s_-]+/g, '-')
RECURSIVE Hyphenate(_)
Hyphenate(s) ==
    IF s = <<>> THEN <<>>
    ELSE IF Head(s) \notin SlugSeparators
    THEN <<Head(s)>> \o Hyphenate(Tail(s))
    ELSE LET rest == {i \in 2..Len(s) : s[i] \notin SlugSeparators} IN
         IF rest = {} THEN <<"-">>
         ELSE <<"-">> \o Hyphenate(SubSeq(s, CHOOSE i \in rest :
                                                \A j \in rest : i <= j,
                                             Len(s)))

\* .replace(/^-+|-+$/g, '')
StripHyphens(s) ==
    LET kept == {i \in 1..Len(s) : s[i] # "-"} IN
    IF kept = {} THEN <<>>
    ELSE SubSeq(s, CHOOSE i \in kept : \A j \in kept : i <= j,
                   CHOOSE i \in kept : \A j \in kept : i >= j)

generateSlug(title) ==
    StripHyphens(Hyphenate(SlugChars(Trim(ToLowerCase(title)))))

\* [a-z0-9]
SlugLetters ==
    {LowerCase[i] : i \in 1..Len(LowerCase)}
        \cup {"0", "1", "2", "3", "4", "5", "6", "7", "8", "9"}

\* /^[a-z0-9]+(?:-[a-z0-9]+)*$/
SlugPattern(s) ==
    /\ Len(s) >= 1
    /\ \A i \in 1..Len(s) : s[i] \in SlugLetters \cup {"-"}
    /\ s[1] # "-" /\ s[Len(s)] # "-"
    /\ \A i \in 1..(Len(s) - 1) : ~(s[i] = "-" /\ s[i + 1] = "-")

\* The generator values validateCreatePage allows, besides null.
CreateGenerators ==
    {<<"b", "l", "o", "g", "-", "p", "o", "s", "t">>,
     <<"l", "a", "n", "d", "i", "n", "g", "-", "p", "a", "g", "e">>,
     <<"p", "r", "o", "d", "u", "c", "t">>, <<"c", "o", "n", "t", "a", "c", "t">>,
     <<"a", "b", "o", "u", "t">>, <<"c", "u", "s", "t", "o", "m">>}

\* validateCreatePage, for a body whose id and title are strings and whose
\* slug and generator, if it has them, are strings: the trimmed id is not
\* empty, at most 100 characters long and made of letters, digits, hyphens
\* and underscores; the trimmed title is not empty; the trimmed slug is
\* lowercase words joined by hyphens; the generator is in the list.
validateCreatePage(body) ==
    /\ Len(Trim(body.id.s)) \in 1..100
    /\ PAGE_ID_PATTERN(Trim(body.id.s))
    /\ Len(Trim(body.title.s)) >= 1
    /\ \/ body.slug.t = "undefined"
       \/ /\ Len(Trim(body.slug.s)) <= 150
          /\ SlugPattern(Trim(body.slug.s))
    /\ body.generator.t = "undefined" \/ body.generator.s \in CreateGenerators

\* validateUpdatePage, for a string id and a body whose title, if it has
\* one, is a string.
validateUpdatePage(body) ==
    /\ Len(Trim(body.id.s)) >= 1
    /\ PAGE_ID_PATTERN(Trim(body.id.s))
    /\ body.title.t = "undefined" \/ Len(Trim(body.title.s)) >= 1

\* The validators also trim the id and the title in place.
Sanitized(body) ==
    [body EXCEPT !.id = Str(Trim(body.id.s)),
                 !.title = IF body.title.t = "undefined" THEN Undefined
                           ELSE Str(Trim(body.title.s))]

\* pageData of POST /pages
PostPageData(body, now) ==
    [Page(body.id, body.title, now, now) EXCEPT
        !.slug = IF Falsy(body.slug) THEN Str(generateSlug(body.title.s))
                 ELSE body.slug,
        !.generator = IF Falsy(body.generator) THEN Null ELSE body.generator]

\* POST /pages up to its first await (the access of pageExists); a body
\* that fails validation is answered 422.
StartPost(p, bodies) ==
    \E raw \in bodies :
        LET body == Sanitized(raw)
            safe == getSafeFilePath(body.id)
            valid == validateCreatePage(raw)
        IN
        /\ Begin(p, [NoCall EXCEPT !.op = "POST /pages", !.pageId = body.id,
                                   !.body = body],
                 IF valid THEN safe.path ELSE NoPath)
        /\ IF ~valid THEN Finish(p, Answer(422))
           ELSE Goto(p, "c_access", [NoLocals EXCEPT !.filePath = safe.path])
        /\ UNCHANGED <<files, dirExists, clock, faults, history, customGenerators>>

\* exists = await fileStorage.pageExists(id); then 409, or the page is
\* built and writePage is called and waits for its readFile.
C_Access(p) ==
    /\ pc[p] = "c_access"
    /\ \E io \in IoOutcomes :
        LET exists == Accessible(Errno(io, lv[p].filePath))
            pageData == PostPageData(call[p].body, clock)
            code == writePageChecks(call[p].pageId, pageData)
        IN
        /\ faults' = Fault(io)
        /\ IF exists THEN Finish(p, Answer(409))
           ELSE IF code # "OK"
           THEN Finish(p, Respond(call[p].op, Thrown(code)))
           ELSE Goto(p, "w_readFile", [lv[p] EXCEPT !.page = pageData])
    /\ UNCHANGED <<files, dirExists, clock, calls, call, before, history, customGenerators>>

\* The fields PUT /pages/:id takes from its body, and the time stamp.
Updated(page, body, now) ==
    [page EXCEPT
        !.title = IF body.title.t # "undefined" THEN body.title ELSE @,
        !.slug = IF body.slug.t # "undefined" THEN body.slug ELSE @,
        !.updated = now]

\* PUT /pages/:id up to its first await (the readFile of readPage).
StartPut(p, bodies) ==
    \E raw \in bodies :
        LET body == Sanitized(raw)
            safe == getSafeFilePath(body.id)
            valid == validateUpdatePage(raw)
        IN
        /\ Begin(p, [NoCall EXCEPT !.op = "PUT /pages/:id",
                                   !.pageId = body.id, !.body = body],
                 IF valid THEN safe.path ELSE NoPath)
        /\ IF ~valid THEN Finish(p, Answer(422))
           ELSE IF safe.code # "OK"
           THEN Finish(p, Respond("PUT /pages/:id", Thrown(safe.code)))
           ELSE Goto(p, "u_readFile", [NoLocals EXCEPT !.filePath = safe.path])
        /\ UNCHANGED <<files, dirExists, clock, faults, history, customGenerators>>

\* page = await fileStorage.readPage(id): 404 for PAGE_NOT_FOUND; then the
\* body's fields are assigned and writePage is called and waits for its
\* readFile.
U_ReadFile(p) ==
    /\ pc[p] = "u_readFile"
    /\ \E io \in IoOutcomes :
        LET r == readPageSettled(lv[p].filePath, io)
            page == Updated(r.page, call[p].body, clock)
            code == writePageChecks(call[p].pageId, page)
        IN
        /\ faults' = Fault(io)
        /\ IF r.code = "PAGE_NOT_FOUND" THEN Finish(p, Answer(404))
           ELSE IF r.code # "OK" THEN Finish(p, Respond(call[p].op, r))
           ELSE IF code # "OK"
           THEN Finish(p, Respond(call[p].op, Thrown(code)))
           ELSE Goto(p, "w_readFile", [lv[p] EXCEPT !.page = page])
    /\ UNCHANGED <<files, dirExists, clock, calls, call, before, history, customGenerators>>

---------------------------------------------------------------------------
(* The upload router: POST /upload.                                        *)

\* path.join(process.cwd(), 'data', 'uploads')
uploadDir == << <<"app">>, <<"data">>, <<"uploads">> >>

\* The path multer stores an upload at.
UploadPathOf(filename) == Append(uploadDir, <<filename, ".png">>)

\* generateSecureFilename(): 16 random bytes in hex; a name no file has.
FreshUploads == {n \in HexPool : ~Exists(UploadPathOf(n))}

\* The validators of body('pageId') in POST /upload; a missing pageId
\* is the empty string after trim().
validateUploadPageId(body) ==
    /\ Len(Trim(body.id.s)) >= 1
    /\ PAGE_ID_PATTERN(Trim(body.id.s))

\* page.attachments.push(sanitizeFileMetadata(metadata))
Attached(page, filename) ==
    [page EXCEPT !.attachments = Append(@, [filename |-> filename])]

\* cleanupFile(filePath) settled with io: the file is unlinked if it
\* exists; a failure is logged and nothing is thrown.
cleanupFile(fs, path, io) ==
    IF path \in DOMAIN fs /\ io = "ok" THEN Remove(fs, path) ELSE fs

\* POST /upload up to its first await: multer has stored the file of the
\* request, if it has one, under a new name; validateUploadedFile answers
\* 400 and the validators of pageId 422; then readPage is called.
StartUpload(p, bodies) ==
    \E raw \in bodies :
        IF raw.file = ""
        THEN /\ Begin(p, [NoCall EXCEPT !.op = "POST /upload", !.pageId = raw.id,
                                        !.body = raw], NoPath)
             /\ Finish(p, Answer(400))
             /\ UNCHANGED <<files, dirExists, clock, faults, history, customGenerators>>
        ELSE \E filename \in FreshUploads :
            LET body == [Sanitized(raw) EXCEPT !.file = filename]
                safe == getSafeFilePath(body.id)
                valid == validateUploadPageId(raw)
            IN
            /\ Begin(p, [NoCall EXCEPT !.op = "POST /upload", !.pageId = body.id,
                                       !.body = body],
                     IF valid THEN safe.path ELSE NoPath)
            /\ files' = Put(files, UploadPathOf(filename),
                            Content("upload", NoPage, NewInode))
            /\ IF ~valid THEN Finish(p, Answer(422))
               ELSE IF safe.code # "OK"
               THEN Goto(p, "up_cleanup", [NoLocals EXCEPT !.status = 500])
               ELSE Goto(p, "up_readFile", [NoLocals EXCEPT !.filePath = safe.path])
            /\ UNCHANGED <<dirExists, clock, faults, history, customGenerators>>

\* page = await fileStorage.readPage(pageId): on a failure the inner catch
\* runs; else the attachment is pushed and writePage is called.
Up_ReadFile(p) ==
    /\ pc[p] = "up_readFile"
    /\ \E io \in IoOutcomes :
        LET r == readPageSettled(lv[p].filePath, io)
            page == [Attached(r.page, call[p].body.file) EXCEPT !.updated = clock]
            code == writePageChecks(call[p].pageId, page)
        IN
        /\ faults' = Fault(io)
        /\ IF r.code # "OK"
           THEN Goto(p, "up_cleanup",
                     [lv[p] EXCEPT !.status = IF r.code = "PAGE_NOT_FOUND"
                                              THEN 404 ELSE 500])
           ELSE IF code # "OK" THEN Goto(p, "up_catch", lv[p])
           ELSE Goto(p, "w_readFile", [lv[p] EXCEPT !.page = page])
    /\ UNCHANGED <<files, dirExists, clock, calls, call, before, history, customGenerators>>

\* The inner catch: await upload.cleanupFile(file.path); 404 for
\* PAGE_NOT_FOUND, else the error is thrown to the outer catch.
Up_Cleanup(p) ==
    /\ pc[p] = "up_cleanup"
    /\ \E io \in IoOutcomes :
        /\ faults' = IF Exists(UploadPathOf(call[p].body.file)) THEN Fault(io)
                     ELSE faults
        /\ files' = cleanupFile(files, UploadPathOf(call[p].body.file), io)
        /\ IF lv[p].status = 404 THEN Finish(p, Answer(404))
           ELSE Goto(p, "up_catch", lv[p])
    /\ UNCHANGED <<dirExists, clock, calls, call, before, history, customGenerators>>

\* The outer catch: await upload.cleanupFile(req.file.path); next(error).
Up_Catch(p) ==
    /\ pc[p] = "up_catch"
    /\ \E io \in IoOutcomes :
        /\ faults' = IF Exists(UploadPathOf(call[p].body.file)) THEN Fault(io)
                     ELSE faults
        /\ files' = cleanupFile(files, UploadPathOf(call[p].body.file), io)
        /\ Finish(p, Answer(500))
    /\ UNCHANGED <<dirExists, clock, calls, call, before, history, customGenerators>>

---------------------------------------------------------------------------
(* The generators router.                                                  *)

BuiltInNames ==
    [id \in {<<"b", "l", "o", "g", "-", "p", "o", "s", "t">>, <<"l", "a", "n", "d", "i", "n", "g", "-", "p", "a", "g", "e">>, <<"p", "r", "o", "d", "u", "c", "t">>, <<"c", "o", "n", "t", "a", "c", "t">>, <<"a", "b", "o", "u", "t">>, <<"f", "a", "q">>} |->
        CASE id = <<"b", "l", "o", "g", "-", "p", "o", "s", "t">> -> <<"B", "l", "o", "g", " ", "P", "o", "s", "t">>
          [] id = <<"l", "a", "n", "d", "i", "n", "g", "-", "p", "a", "g", "e">> -> <<"L", "a", "n", "d", "i", "n", "g", " ", "P", "a", "g", "e">>
          [] id = <<"p", "r", "o", "d", "u", "c", "t">> -> <<"P", "r", "o", "d", "u", "c", "t", " ", "P", "a", "g", "e">>
          [] id = <<"c", "o", "n", "t", "a", "c", "t">> -> <<"C", "o", "n", "t", "a", "c", "t", " ", "P", "a", "g", "e">>
          [] id = <<"a", "b", "o", "u", "t">> -> <<"A", "b", "o", "u", "t", " ", "P", "a", "g", "e">>
          [] id = <<"f", "a", "q">> -> <<"F", "A", "Q", " ", "P", "a", "g", "e">>]

\* const generators = {...}: the built-in generators; each has a required
\* field and a template with sections.
generators ==
    [id \in DOMAIN BuiltInNames |-> Generator(id, BuiltInNames[id], TRUE, TRUE)]

\* Names every plain object inherits from Object.prototype (some of them).
ObjectPrototypeNames ==
    {<<"c", "o", "n", "s", "t", "r", "u", "c", "t", "o", "r">>, <<"t", "o", "S", "t", "r", "i", "n", "g">>, <<"v", "a", "l", "u", "e", "O", "f">>, <<"_", "_", "p", "r", "o", "t", "o", "_", "_">>}

\* obj[key] for a plain object obj: its own property, an inherited one,
\* or undefined.
Get(obj, key) ==
    IF key \in DOMAIN obj THEN obj[key]
    ELSE IF key \in ObjectPrototypeNames THEN Inherited
    ELSE NoGenerator

\* !!v for a definition, an inherited member or undefined
Truthy(v) == v.t # "undefined"

\* { ...generators, ...customGenerators }
getAllGenerators(custom) ==
    [id \in (DOMAIN generators) \cup (DOMAIN custom) |->
        IF id \in DOMAIN custom THEN custom[id] ELSE generators[id]]

\* { ...generator }: the own enumerable properties; an inherited member
\* has none.
Spread(generator) ==
    IF generator.t = "object" THEN generator
    ELSE [NoGenerator EXCEPT !.t = "object"]

\* validateGeneratorId: the trimmed id is not empty, at most 50 characters
\* long and matches /^[a-zA-Z0-9_-]+$/.
validateGeneratorId(id) ==
    Len(Trim(id)) \in 1..50 /\ PAGE_ID_PATTERN(Trim(id))

\* validateGenerate: the trimmed id and pageId are not empty and match the
\* pattern.
validateGenerate(id, pageId) ==
    /\ Len(Trim(id)) >= 1 /\ PAGE_ID_PATTERN(Trim(id))
    /\ Len(Trim(pageId)) >= 1 /\ PAGE_ID_PATTERN(Trim(pageId))

IdExistsCustomOnly(custom, value) == Truthy(Get(custom, value))

\* The custom validator of the id: generators[value] || customGenerators[value]
IdExists(custom, value) ==
    Truthy(Get(generators, value)) \/ Truthy(Get(custom, value))

\* validateRegisterGenerator, for a body whose id and name are strings;
\* fields is "none" (no array), or an array with or without a required
\* field; template is "none" (no object), or an object with or without an
\* array of sections.
validateRegisterGenerator(custom, body) ==
    /\ Len(Trim(body.id)) \in 3..50
    /\ PAGE_ID_PATTERN(Trim(body.id))
    /\ ~IdExists(custom, Trim(body.id))
    /\ Len(Trim(body.name)) \in 1..100
    /\ body.fields # "none"
    /\ body.template # "none"

\* A request to the generators router is answered with r.  Validators and
\* handler run without any I/O in between, so a request is one step.
Request(op, id, r) ==
    /\ call' = [call EXCEPT ![1] = [NoCall EXCEPT !.op = op, !.pageId = Str(id)]]
    /\ result' = [result EXCEPT ![1] = r]
    /\ UNCHANGED <<files, dirExists, clock, faults, calls, pc, lv, before, history>>

\* What GET /generators lists of a definition.
Listed(custom, gen) ==
    [id |-> gen.id, name |-> gen.name, isCustom |-> Truthy(Get(custom, gen.id.s))]

\* GET /generators
ListGenerators ==
    LET allGenerators == getAllGenerators(customGenerators) IN
    /\ Request("GET /generators", <<>>,
               [Answer(200) EXCEPT
                  !.generators = {Listed(customGenerators, allGenerators[id]) :
                                     id \in DOMAIN allGenerators}])
    /\ UNCHANGED customGenerators

\* GET /generators/:id
GetGenerator(ids) ==
    \E raw \in ids :
        LET id == Trim(raw)
            generator == Get(getAllGenerators(customGenerators), id)
        IN
        /\ Request("GET /generators/:id", id,
                   IF ~validateGeneratorId(raw) THEN Answer(422)
                   ELSE IF ~Truthy(generator) THEN Answer(404)
                   ELSE [Answer(200) EXCEPT
                           !.generator = Spread(generator),
                           !.isCustom = Truthy(Get(customGenerators, id))])
        /\ UNCHANGED customGenerators

\* The page POST /generators/:id/generate answers with (it is not stored);
\* data.title stands for the fields of data.
GeneratedPage(pageId, data) ==
    [Page(Str(pageId),
          IF Falsy(data.title) THEN Str(<<"U", "n", "t", "i", "t", "l", "e", "d", " ", "P", "a", "g", "e">>) ELSE data.title, 0, 0)
     EXCEPT !.slug = Str(generateSlug(IF Falsy(data.title) THEN pageId
                                      ELSE data.title.s))]

\* validateRequiredFields(generator, data) found a required field missing
MissingFields(generator, data) ==
    generator.required /\ (data.title.t = "undefined" \/ data.title = Str(<<>>))

\* POST /generators/:id/generate; generator.fields of an inherited member
\* is undefined and iterating it throws a TypeError, as does
\* template.sections.map without sections: the error handler answers 500.
Generate(ids, pageIds, datas) ==
    \E raw \in ids, rawPageId \in pageIds, data \in datas :
        LET id == Trim(raw)
            pageId == Trim(rawPageId)
            generator == Get(getAllGenerators(customGenerators), id)
        IN
        /\ Request("POST /generators/:id/generate", id,
                   IF ~validateGenerate(raw, rawPageId) THEN Answer(422)
                   ELSE IF ~Truthy(generator) THEN Answer(404)
                   ELSE IF generator.t # "object" THEN Answer(500)
                   ELSE IF MissingFields(generator, data) THEN Answer(422)
                   ELSE IF ~generator.sections THEN Answer(500)
                   ELSE [Answer(200) EXCEPT
                           !.page = [GeneratedPage(pageId, data) EXCEPT
                                        !.generator = Str(id)]])
        /\ UNCHANGED customGenerators

\* POST /generators/custom/register
Register(bodies) ==
    \E body \in bodies :
        LET id == Trim(body.id)
            customGenerator == Generator(id, Trim(body.name),
                                         body.fields = "required",
                                         body.template = "sections")
        IN
        IF ~validateRegisterGenerator(customGenerators, body)
        THEN /\ Request("POST /generators/custom/register", id, Answer(422))
             /\ UNCHANGED customGenerators
        ELSE /\ customGenerators' = Put(customGenerators, id, customGenerator)
             /\ Request("POST /generators/custom/register", id,
                        [Answer(201) EXCEPT !.generator = customGenerator,
                                            !.isCustom = TRUE])

\* DELETE /generators/custom/:id
DeleteCustom(ids) ==
    \E raw \in ids :
        LET id == Trim(raw) IN
        IF ~validateGeneratorId(raw)
        THEN /\ Request("DELETE /generators/custom/:id", id, Answer(422))
             /\ UNCHANGED customGenerators
        ELSE IF Truthy(Get(generators, id))
        THEN /\ Request("DELETE /generators/custom/:id", id, Answer(403))
             /\ UNCHANGED customGenerators
        ELSE IF ~Truthy(Get(customGenerators, id))
        THEN /\ Request("DELETE /generators/custom/:id", id, Answer(404))
             /\ UNCHANGED customGenerators
        ELSE /\ customGenerators' = Remove(customGenerators, id)
             /\ Request("DELETE /generators/custom/:id", id, Answer(200))

\* The section types validateAddSection allows.
SectionTypes ==
    {"hero", "text", "gallery", "form", "rich-text", "custom", "cta",
     "features", "testimonials", "pricing", "faq"}

\* validateAddSection, for a string id and a string type
validateAddSection(body) ==
    /\ Len(Trim(body.id.s)) >= 1
    /\ PAGE_ID_PATTERN(Trim(body.id.s))
    /\ body.type \in SectionTypes

\* The validators of DELETE /pages/:id/sections/:sectionId, for a string id
\* and a section id that is not empty
validateDeleteSection(body) ==
    /\ Len(Trim(body.id.s)) >= 1
    /\ PAGE_ID_PATTERN(Trim(body.id.s))

\* generateSectionId(): the time and nine random characters; n stands for
\* an id no section of the page has.
FreshSectionIds(sections) ==
    (1..MaxSections) \ {sections[i].id : i \in 1..Len(sections)}

\* page.content.sections.push(section), with order = the length before
Pushed(sections, id, type) ==
    Append(sections, [id |-> id, type |-> type, order |-> Len(sections)])

\* page.content.sections.filter(s => s.id !== sectionId)
RECURSIVE Filtered(_, _)
Filtered(sections, sectionId) ==
    IF sections = <<>> THEN <<>>
    ELSE IF Head(sections).id # sectionId
    THEN <<Head(sections)>> \o Filtered(Tail(sections), sectionId)
    ELSE Filtered(Tail(sections), sectionId)

ReorderedNot(sections) == sections

\* sections.forEach((section, index) => { section.order = index })
Reordered(sections) ==
    [i \in 1..Len(sections) |-> [sections[i] EXCEPT !.order = i - 1]]

\* POST /pages/:id/sections up to its first await (the readFile of
\* readPage); validateAddSection answers 422.
StartAddSection(p, bodies) ==
    \E raw \in bodies :
        LET body == Sanitized(raw)
            safe == getSafeFilePath(body.id)
            valid == validateAddSection(raw)
        IN
        /\ Begin(p, [NoCall EXCEPT !.op = "POST /pages/:id/sections",
                                   !.pageId = body.id, !.body = body],
                 IF valid THEN safe.path ELSE NoPath)
        /\ IF ~valid THEN Finish(p, Answer(422))
           ELSE IF safe.code # "OK"
           THEN Finish(p, Respond("POST /pages/:id/sections", Thrown(safe.code)))
           ELSE Goto(p, "a_readFile", [NoLocals EXCEPT !.filePath = safe.path])
        /\ UNCHANGED <<files, dirExists, clock, faults, history, customGenerators>>

\* page = await fileStorage.readPage(id): 404 for PAGE_NOT_FOUND; then the
\* section is appended and writePage is called and waits for its readFile.
A_ReadFile(p) ==
    /\ pc[p] = "a_readFile"
    /\ \E io \in IoOutcomes :
        LET r == readPageSettled(lv[p].filePath, io) IN
        /\ faults' = Fault(io)
        /\ IF r.code = "PAGE_NOT_FOUND" THEN Finish(p, Answer(404))
           ELSE IF r.code # "OK" THEN Finish(p, Respond(call[p].op, r))
           ELSE \E n \in FreshSectionIds(r.page.sections) :
                LET page == [r.page EXCEPT
                               !.sections = Pushed(@, n, call[p].body.type),
                               !.updated = clock]
                    code == writePageChecks(call[p].pageId, page)
                IN
                IF code # "OK"
                THEN Finish(p, Respond(call[p].op, Thrown(code)))
                ELSE Goto(p, "w_readFile", [lv[p] EXCEPT !.page = page])
    /\ UNCHANGED <<files, dirExists, clock, calls, call, before, history, customGenerators>>

\* DELETE /pages/:id/sections/:sectionId up to its first await.
StartDeleteSection(p, bodies) ==
    \E raw \in bodies :
        LET body == Sanitized(raw)
            safe == getSafeFilePath(body.id)
            valid == validateDeleteSection(raw)
        IN
        /\ Begin(p, [NoCall EXCEPT !.op = "DELETE /pages/:id/sections/:sectionId",
                                   !.pageId = body.id, !.body = body],
                 IF valid THEN safe.path ELSE NoPath)
        /\ IF ~valid THEN Finish(p, Answer(422))
           ELSE IF safe.code # "OK"
           THEN Finish(p, Respond("DELETE /pages/:id/sections/:sectionId",
                                  Thrown(safe.code)))
           ELSE Goto(p, "x_readFile", [NoLocals EXCEPT !.filePath = safe.path])
        /\ UNCHANGED <<files, dirExists, clock, faults, history, customGenerators>>

\* page = await fileStorage.readPage(id): 404 for PAGE_NOT_FOUND, for a page
\* without sections and for an unknown section id; then the section is
\* filtered out, the others are reordered and writePage is called.
X_ReadFile(p) ==
    /\ pc[p] = "x_readFile"
    /\ \E io \in IoOutcomes :
        LET r == readPageSettled(lv[p].filePath, io)
            sections == Filtered(r.page.sections, call[p].body.sectionId)
            page == [r.page EXCEPT !.sections = Reordered(sections),
                                   !.updated = clock]
            code == writePageChecks(call[p].pageId, page)
        IN
        /\ faults' = Fault(io)
        /\ IF r.code = "PAGE_NOT_FOUND" THEN Finish(p, Answer(404))
           ELSE IF r.code # "OK" THEN Finish(p, Respond(call[p].op, r))
           ELSE IF r.page.sections = <<>> THEN Finish(p, Answer(404))
           ELSE IF Len(sections) = Len(r.page.sections) THEN Finish(p, Answer(404))
           ELSE IF code # "OK"
           THEN Finish(p, Respond(call[p].op, Thrown(code)))
           ELSE Goto(p, "w_readFile", [lv[p] EXCEPT !.page = page])
    /\ UNCHANGED <<files, dirExists, clock, calls, call, before, history, customGenerators>>

WriteSteps(p) ==
    \/ W_ReadFile(p)
    \/ W_Mkdir(p)
    \/ W_Open(p)
    \/ W_Write(p)
    \/ W_Rename(p)
    \/ W_Chmod(p)
    \/ W_Unlink(p)

DeleteSteps(p) ==
    \/ D_Access(p)
    \/ D_Stat(p)
    \/ D_Open(p)
    \/ D_Write(p)
    \/ D_Sync(p)
    \/ D_Unlink(p)

\* Concurrent reads, writes and deletes of one page.
Next ==
    \/ Tick
    \/ \E p \in Procs :
        \/ StartRead(p, CallIds)
        \/ StartWrite(p, CallArgs)
        \/ StartDelete(p, CallIds)
        \/ ReadSteps(p)
        \/ WriteSteps(p)
        \/ DeleteSteps(p)

Spec == Init /\ [][Next]_vars

\* Concurrent reads and writes of one page, no delete.
NextRW ==
    \/ Tick
    \/ \E p \in Procs :
        \/ StartRead(p, CallIds)
        \/ StartWrite(p, CallArgs)
        \/ ReadSteps(p)
        \/ WriteSteps(p)

SpecRW == Init /\ [][NextRW]_vars

\* One call at a time: task 1 alone, each call run to its end before the next.
NextSeq ==
    \/ Tick
    \/ StartRead(1, SeqIds)
    \/ StartWrite(1, SeqArgs)
    \/ StartDelete(1, SeqIds)
    \/ ReadSteps(1)
    \/ WriteSteps(1)
    \/ DeleteSteps(1)

SpecSeq == Init /\ [][NextSeq]_vars

\* The characters the ids of the single-call specification are made of:
\* a letter, an underscore, a blank, a dot and the path separator.
Alphabet == {"p", "_", " ", ".", "/"}

Strings == UNION {[1..n -> Alphabet] : n \in 0..MaxIdLen}

\* "../secret", "a/b", and ids around the length limit, bare and padded.
NamedStrings ==
    {<<".", ".", "/", "s", "e", "c", "r", "e", "t">>,
     <<"a", "/", "b">>,
     Repeat("p", MAX_PAGE_ID_LENGTH),
     Repeat("p", MAX_PAGE_ID_LENGTH + 1),
     <<" ">> \o Repeat("p", MAX_PAGE_ID_LENGTH),
     <<" ">> \o Repeat("p", MAX_PAGE_ID_LENGTH + 1),
     Repeat("p", MAX_PAGE_ID_LENGTH - 1) \o <<"/">>}

NonStrings == {Undefined, Null, Num42, Zero, EmptyObject}

IdInputs == {Str(s) : s \in Strings \cup NamedStrings} \cup NonStrings

\* A page with the id of the call, a page with another id, and no page.
OneCallData(pageId) ==
    {Page(pageId, TitleA, 0, 0), Page(Str(<<"p">>), TitleA, 0, 0), NoPage}

OneCallArgs ==
    UNION {{[pageId |-> id, pageData |-> d] : d \in OneCallData(id)} : id \in IdInputs}

P == Str(<<"p">>)

\* What the file p.json may hold when the program starts: a page, an
\* object without id or title, another JSON value, or bytes that are no
\* JSON text.
JsonValues ==
    {Page(P, TitleA, 1, 1),
     Page(Undefined, TitleA, 1, 1),
     Page(P, Undefined, 1, 1),
     Page(P, Str(<<>>), 0, 0),
     Page(Zero, TitleA, 0, 0),
     NonObject("null"),
     NonObject("number"),
     NonObject("string"),
     NonObject("array"),
     NonObject("boolean")}

InitialContents ==
    {Content("json", v, 1) : v \in JsonValues}
        \cup {Content("partial", NoPage, 1), Content("random", NoPage, 1)}

InitOneCall ==
    /\ \/ files = << >> /\ dirExists \in BOOLEAN
       \/ \E c \in InitialContents :
            files = (getSafeFilePath(P).path :> c) /\ dirExists = TRUE
    /\ clock = FirstTick
    /\ faults = 0
    /\ calls = 0
    /\ pc = [p \in Procs |-> "idle"]
    /\ call = [p \in Procs |-> NoCall]
    /\ lv = [p \in Procs |-> NoLocals]
    /\ before = [p \in Procs |-> NoStart]
    /\ result = [p \in Procs |-> NoResult]
    /\ history = {Text(files[f]) : f \in DOMAIN files}
    /\ customGenerators = << >>

\* A single call of any operation with any id, run to its end.
NextOneCall ==
    \/ calls = 0 /\ Resolve(1, IdInputs)
    \/ calls = 0 /\ StartRead(1, IdInputs)
    \/ calls = 0 /\ StartWrite(1, OneCallArgs)
    \/ calls = 0 /\ StartDelete(1, IdInputs)
    \/ calls = 0 /\ StartStats(1, IdInputs)
    \/ calls = 0 /\ StartExists(1, IdInputs)
    \/ S_Stat(1)
    \/ E_Access(1)
    \/ ReadSteps(1)
    \/ WriteSteps(1)
    \/ DeleteSteps(1)

SpecOneCall == InitOneCall /\ [][NextOneCall]_vars

\* The documents written to see what a read gives back: the title and
\* the slug a string, or a number JSON has no text for.
DocArgs ==
    {[pageId |-> P1,
      pageData |-> [Page(P1, title, 0, 0) EXCEPT !.slug = slug]] :
        title \in {TitleA, Infinity},
        slug \in {Undefined, Str(<<"s">>), Infinity}}

\* One call at a time on one page: writes of such documents, reads,
\* deletes and existence tests.
NextDoc ==
    \/ Tick
    \/ StartRead(1, CallIds)
    \/ StartWrite(1, DocArgs)
    \/ StartDelete(1, CallIds)
    \/ StartExists(1, CallIds)
    \/ E_Access(1)
    \/ ReadSteps(1)
    \/ WriteSteps(1)
    \/ DeleteSteps(1)

SpecDoc == Init /\ [][NextDoc]_vars

\* The ids p1, p2, ... of the pages of a store holding several pages.
Digits == <<"1", "2", "3", "4", "5", "6", "7", "8", "9">>

PageIdNo(i) == Str(<<"p", Digits[i]>>)

ListIds == {PageIdNo(i) : i \in 1..MaxPages}

InodeOf(id) == CHOOSE i \in 1..MaxPages : PageIdNo(i) = id

\* A stored page with a slug.
PageWithSlug(id, title, slug, updated) ==
    [Page(id, title, 1, updated) EXCEPT !.slug = slug]

\* The store that holds, for each id of g, the file content g[id], if any.
StoreOf(g) ==
    [f \in {getSafeFilePath(id).path : id \in {i \in DOMAIN g : g[i] # Absent}} |->
        g[CHOOSE id \in DOMAIN g : getSafeFilePath(id).path = f]]

\* The stores that hold, for each id, one of the contents C[id] or no file.
Stores(C) ==
    {StoreOf(g) : g \in {h \in [DOMAIN C -> UNION {C[id] : id \in DOMAIN C} \cup {Absent}] :
                            \A id \in DOMAIN C : h[id] \in C[id] \cup {Absent}}}

\* Pages stored with and without a modification time, with titles and
\* slugs in both cases of letters, and a title that is no string.
ListContents ==
    [id \in ListIds |->
        {Content("json", PageWithSlug(id, Str(<<"A", "b">>), Undefined, updated),
                 InodeOf(id)) : updated \in 0..MaxClock}
        \cup {Content("json", PageWithSlug(id, Str(<<"c">>), Str(<<"a", "B">>), 1),
                      InodeOf(id)),
              Content("json", PageWithSlug(id, Num42, Undefined, 1), InodeOf(id))}]

Queries ==
    {Undefined, Num42, Str(<<>>), Str(<<" ">>), Str(<<"a">>), Str(<<" ", "B">>),
     Str(<<"P", "2">>), Str(<<"z">>)}

InitAny(stores) ==
    /\ \/ files = << >> /\ dirExists \in BOOLEAN
       \/ files \in stores /\ dirExists = TRUE
    /\ clock = FirstTick
    /\ faults = 0
    /\ calls = 0
    /\ pc = [p \in Procs |-> "idle"]
    /\ call = [p \in Procs |-> NoCall]
    /\ lv = [p \in Procs |-> NoLocals]
    /\ before = [p \in Procs |-> NoStart]
    /\ result = [p \in Procs |-> NoResult]
    /\ history = {Text(files[f]) : f \in DOMAIN files}
    /\ customGenerators = << >>

InitList == InitAny(Stores(ListContents))

\* One listPages or searchPages call over a store of several pages.
NextList ==
    \/ calls = 0 /\ StartScan(1, {"listPages", "searchPages"}, Queries)
    \/ ScanSteps(1)

SpecList == InitList /\ [][NextList]_vars

ScanIds == {P1, P2}

\* Files that hold a page, and files readPage cannot decode.
ScanContents ==
    [id \in ScanIds |->
        {Content("json", Page(id, TitleA, 1, 1), InodeOf(id)),
         Content("json", Page(id, Undefined, 1, 1), InodeOf(id)),
         Content("json", NonObject("null"), InodeOf(id)),
         Content("partial", NoPage, InodeOf(id)),
         Content("random", NoPage, InodeOf(id))}]

InitScan == InitAny(Stores(ScanContents))

\* Task 1 lists or backs up the store while task 2 deletes pages.
NextScan ==
    \/ StartScan(1, {"listPages", "backupAllPages"}, {})
    \/ ScanSteps(1)
    \/ StartDelete(2, ScanIds)
    \/ DeleteSteps(2)

SpecScan == InitScan /\ [][NextScan]_vars

\* The arguments of importPage: a page as a value or as text, for a stored
\* or an unused id; a page without title; text that is no JSON, the text
\* null, and a number.
ImportArgs ==
    {[jsonData |-> d, overwrite |-> o] :
        d \in {[text |-> FALSE, k |-> "json", v |-> Page(P1, TitleB, 0, 0)],
               [text |-> TRUE, k |-> "json", v |-> Page(P1, TitleB, 0, 0)],
               [text |-> FALSE, k |-> "json", v |-> Page(P2, TitleB, 0, 0)],
               [text |-> FALSE, k |-> "json", v |-> Page(P1, Undefined, 0, 0)],
               [text |-> TRUE, k |-> "random", v |-> NoPage],
               [text |-> TRUE, k |-> "json", v |-> NonObject("null")],
               [text |-> FALSE, k |-> "json", v |-> NonObject("null")],
               [text |-> FALSE, k |-> "json", v |-> NonObject("number")]},
        o \in BOOLEAN}

\* The entries of a bundle: two pages, a page without title, and null.
BundleEntries ==
    {Page(P1, TitleB, 0, 0), Page(P2, TitleA, 0, 0), Page(P1, Undefined, 0, 0),
     NonObject("null")}

\* Bundles of up to MaxEntries entries, and backups that are no bundle.
Bundles ==
    {[k |-> "json", t |-> "object", version |-> TRUE, isArray |-> TRUE,
      pages |-> pages] :
        pages \in UNION {[1..n -> BundleEntries] : n \in 0..MaxEntries}}
    \cup {[NoBundle EXCEPT !.k = "random"],
          [NoBundle EXCEPT !.t = "null"],
          [NoBundle EXCEPT !.t = "object", !.isArray = TRUE],
          [NoBundle EXCEPT !.t = "object", !.version = TRUE]}

RestoreArgs == {[bundle |-> b, overwrite |-> o] : b \in Bundles, o \in BOOLEAN}

\* One importPage or restoreFromBackup call, run to its end.
NextBatch ==
    \/ calls = 0 /\ StartImport(1, ImportArgs)
    \/ calls = 0 /\ StartRestore(1, RestoreArgs)
    \/ I_Access(1)
    \/ WriteSteps(1)

SpecBatch == Init /\ [][NextBatch]_vars

\* Stored pages p1 and p2, or none.
PairContents ==
    [id \in {P1, P2} |-> {Content("json", Page(id, TitleA, 1, 1), InodeOf(id))}]

InitPair == InitAny(Stores(PairContents))

PairArgs(ids) ==
    {[pageId |-> id, pageData |-> Page(id, TitleB, 0, 0)] : id \in ids}

\* Task 1 writes p1 while task 2 writes another id: p2, or p1 with a
\* leading blank.
NextPair ==
    \/ StartWrite(1, PairArgs({P1}))
    \/ StartWrite(2, PairArgs({P2, PaddedP1}))
    \/ \E p \in Procs : WriteSteps(p)

SpecPair == InitPair /\ [][NextPair]_vars

\* The page p1 is stored, or not: requests that create it.
CreateContents ==
    [id \in {P1} |-> {Content("json", Page(id, Str(<<"C">>), 1, 1), InodeOf(id))}]

InitCreate == InitAny(Stores(CreateContents))

\* Bodies with the id p1, bare or with a leading blank, or an id the
\* validators reject.
CreateBodies(title) ==
    {[NoBody EXCEPT !.id = id, !.title = title] :
        id \in {P1, PaddedP1, Str(<<"p", "/">>)}}

\* Either task sends POST /pages, one after the other or at once.
NextCreate ==
    \/ StartPost(1, CreateBodies(TitleA))
    \/ StartPost(2, CreateBodies(TitleB))
    \/ \E p \in Procs : C_Access(p)
    \/ \E p \in Procs : WriteSteps(p)

SpecCreate == InitCreate /\ [][NextCreate]_vars

\* Generator ids: free ones (one with a leading blank), a built-in one,
\* names of Object.prototype, one that is too short to register and one
\* the pattern rejects.
GenIds == {<<"a", "b", "c">>, <<" ", "a", "b", "d">>, <<"f", "a", "q">>, <<"c", "o", "n", "s", "t", "r", "u", "c", "t", "o", "r">>, <<"t", "o", "S", "t", "r", "i", "n", "g">>, <<"a", "b">>, <<"a", "/", "b">>}

RegisterBodies ==
    {[id |-> id, name |-> name, fields |-> fields, template |-> template] :
        id \in GenIds, name \in {<<"X">>, <<"Y">>},
        fields \in {"none", "optional", "required"},
        template \in {"none", "object", "sections"}}

GenerateData == {[title |-> Undefined], [title |-> Str(<<"M", "y", " ", "P", "a", "g", "e">>)]}

\* Requests to the generators router, in any order.
NextGen ==
    \/ ListGenerators
    \/ GetGenerator(GenIds)
    \/ Generate(GenIds, {<<"p", "g">>}, GenerateData)
    \/ Register(RegisterBodies)
    \/ DeleteCustom(GenIds)

SpecGen == Init /\ [][NextGen]_vars

\* A request that sets the title and one that sets the slug (which stands
\* for the status and the other fields) of page p1, one with an id the
\* validators reject.
TitleBodies ==
    {[NoBody EXCEPT !.id = id, !.title = TitleB] :
        id \in {P1, Str(<<"p", "/">>)}}

SlugBodies == {[NoBody EXCEPT !.id = P1, !.slug = Str(<<"s">>)]}

\* Either task sends PUT /pages/p1, one after the other or at once; p1 is
\* stored or not.
NextUpdate ==
    \/ StartPut(1, TitleBodies)
    \/ StartPut(2, SlugBodies)
    \/ \E p \in Procs : U_ReadFile(p)
    \/ \E p \in Procs : WriteSteps(p)

SpecUpdate == InitCreate /\ [][NextUpdate]_vars

\* importPage of a page p1 without overwrite.
GuardedImports ==
    {[jsonData |-> [text |-> text, k |-> "json", v |-> Page(P1, TitleB, 0, 0)],
      overwrite |-> FALSE] : text \in BOOLEAN}

\* Task 1 imports p1 without overwrite while task 2 writes p1; p1 is
\* stored or not.
NextImportRace ==
    \/ StartImport(1, GuardedImports)
    \/ I_Access(1)
    \/ StartWrite(2, {[pageId |-> P1, pageData |-> Page(P1, TitleA, 0, 0)]})
    \/ \E p \in Procs : WriteSteps(p)

SpecImportRace == InitCreate /\ [][NextImportRace]_vars

\* The document of the state S in which the backup was taken.
SavedPage == Page(P1, Str(<<"C">>), 1, 1)

\* The bundle backupAllPages returned in S, as restoreFromBackup parses it.
SavedBundle ==
    LET r == ScanResult("backupAllPages", Undefined, <<SavedPage>>, 1) IN
    [k |-> "json", t |-> "object", version |-> r.version # "", isArray |-> TRUE,
     pages |-> r.pages]

\* The store some calls after the backup: as in S, or p1 deleted, or p1
\* deleted and written anew (created at the time of that write).
LaterContents ==
    [id \in {P1} |->
        {Content("json", SavedPage, InodeOf(id)),
         Content("json", Page(P1, TitleB, FirstTick, FirstTick), InodeOf(id))}]

InitLater == InitAny(Stores(LaterContents))

\* One more writePage or deletePage, then the bundle is restored with
\* overwrite.
NextLater ==
    \/ calls = 0 /\ StartWrite(1, {[pageId |-> P1, pageData |-> Page(P1, TitleA, 0, 0)]})
    \/ calls = 0 /\ StartDelete(1, {P1})
    \/ StartRestore(1, {[bundle |-> SavedBundle, overwrite |-> TRUE]})
    \/ I_Access(1)
    \/ WriteSteps(1)
    \/ DeleteSteps(1)

SpecLater == InitLater /\ [][NextLater]_vars

\* Calls on p.json when it holds a page, an object without id or title,
\* another JSON value or bytes that are no JSON text: a write or an import
\* with overwrite of a valid page, and deletePage.
NextCorrupt ==
    \/ calls = 0 /\ StartWrite(1, {[pageId |-> P, pageData |-> Page(P, TitleB, 0, 0)]})
    \/ calls = 0 /\ StartImport(1, {[jsonData |-> EntryData(Page(P, TitleB, 0, 0)),
                                     overwrite |-> TRUE]})
    \/ StartDelete(1, {P})
    \/ I_Access(1)
    \/ WriteSteps(1)
    \/ DeleteSteps(1)

SpecCorrupt == InitOneCall /\ [][NextCorrupt]_vars

\* The section lists of a page after up to two additions: ids that
\* differ, orders that are the positions.
SectionLists ==
    {<<>>} \cup {Pushed(<<>>, n, "hero") : n \in 1..MaxSections}
           \cup {Pushed(Pushed(<<>>, nm[1], "hero"), nm[2], "text") :
                    nm \in {x \in (1..MaxSections) \X (1..MaxSections) :
                               x[1] # x[2]}}

SectionContents ==
    [id \in {P1} |->
        {Content("json", [Page(id, Str(<<"C">>), 1, 1) EXCEPT !.sections = s],
                 InodeOf(id)) : s \in SectionLists}]

InitSections == InitAny(Stores(SectionContents))

\* Additions to page p1 or to an id the validators reject, with a section
\* type that is allowed or not.
AddSectionBodies ==
    {[NoBody EXCEPT !.id = id, !.type = type] :
        id \in {P1, Str(<<"p", "/">>)}, type \in {"cta", "video"}}

\* Deletions of each section id from page p1, and one with an id the
\* validators reject.
DeleteSectionBodies ==
    {[NoBody EXCEPT !.id = P1, !.sectionId = n] : n \in 1..MaxSections}
        \cup {[NoBody EXCEPT !.id = Str(<<"p", "/">>), !.sectionId = 1]}

\* Task 1 adds sections to p1 and task 2 deletes sections of p1, one
\* request after the other or at once.
NextSections ==
    \/ StartAddSection(1, AddSectionBodies)
    \/ StartDeleteSection(2, DeleteSectionBodies)
    \/ \E p \in Procs : A_ReadFile(p)
    \/ \E p \in Procs : X_ReadFile(p)
    \/ \E p \in Procs : WriteSteps(p)

SpecSections == InitSections /\ [][NextSections]_vars

\* Task 1 calls the functions that only read while task 2 writes and
\* deletes p1.
NextReaders ==
    \/ StartRead(1, CallIds)
    \/ StartExists(1, CallIds)
    \/ StartStats(1, CallIds)
    \/ StartExport(1, CallIds)
    \/ StartScan(1, {"listPages", "searchPages", "backupAllPages"}, {Str(<<"a">>)})
    \/ StartWrite(2, CallArgs)
    \/ StartDelete(2, CallIds)
    \/ \E p \in Procs :
        \/ ReadSteps(p)
        \/ E_Access(p)
        \/ S_Stat(p)
        \/ Ex_ReadFile(p)
        \/ ScanSteps(p)
        \/ WriteSteps(p)
        \/ DeleteSteps(p)

SpecReaders == Init /\ [][NextReaders]_vars

\* A temp file a writePage of p1 left behind when the process stopped
\* before its rename: complete, with a title no call writes, or cut short.
OrphanPath == TempPathOf(getSafeFilePath(P1).path, "0a")

OrphanPage == Page(P1, Str(<<"T">>), 1, 1)

OrphanContents ==
    {Content("json", OrphanPage, MaxPages + 1),
     Content("partial", NoPage, MaxPages + 1)}

\* The store empty or holding p1, with or without such a temp file.
InitOrphans ==
    /\ \E docs \in {<< >>, getSafeFilePath(P1).path :> StoredP1} :
          \/ files = docs /\ dirExists \in (IF docs = << >> THEN BOOLEAN ELSE {TRUE})
          \/ \E c \in OrphanContents :
                files = Put(docs, OrphanPath, c) /\ dirExists = TRUE
    /\ clock = FirstTick
    /\ faults = 0
    /\ calls = 0
    /\ pc = [p \in Procs |-> "idle"]
    /\ call = [p \in Procs |-> NoCall]
    /\ lv = [p \in Procs |-> NoLocals]
    /\ before = [p \in Procs |-> NoStart]
    /\ result = [p \in Procs |-> NoResult]
    /\ history = {Text(files[f]) : f \in {g \in DOMAIN files : IsPageFile(g)}}
    /\ customGenerators = << >>

\* Task 1 lists, searches or backs up the store while task 2 writes p1.
NextOrphans ==
    \/ StartScan(1, {"listPages", "searchPages", "backupAllPages"},
                 {Undefined, Str(<<"p">>)})
    \/ ScanSteps(1)
    \/ StartWrite(2, CallArgs)
    \/ WriteSteps(2)

SpecOrphans == InitOrphans /\ [][NextOrphans]_vars

\* Uploads for page p1, with a pageId that is missing or that the
\* validators reject, and a request without a file.
UploadBodies ==
    {[NoBody EXCEPT !.id = id, !.file = "file"] :
        id \in {P1, Str(<<>>), Str(<<"p", "/">>)}}
        \cup {[NoBody EXCEPT !.id = P1]}

\* One upload at a time; p1 is stored or not.
NextUpload ==
    \/ StartUpload(1, UploadBodies)
    \/ Up_ReadFile(1)
    \/ Up_Cleanup(1)
    \/ Up_Catch(1)
    \/ WriteSteps(1)

SpecUpload == InitCreate /\ [][NextUpload]_vars

\* The body of a POST /pages that submits a generated page as it is.
Submitted(page) ==
    [NoBody EXCEPT !.id = page.id, !.title = page.title, !.slug = page.slug,
                   !.generator = page.generator]

\* The generators asked for pages: built-in ones and a custom one.
SubmitIds ==
    {<<"b", "l", "o", "g", "-", "p", "o", "s", "t">>, <<"a", "b", "o", "u", "t">>,
     <<"f", "a", "q">>, <<"a", "b", "c">>}

SubmitRegisterBodies ==
    {[id |-> <<"a", "b", "c">>, name |-> <<"X">>, fields |-> fields,
      template |-> "sections"] : fields \in {"optional", "required"}}

\* The page of the last answer of generate is sent to POST /pages.
SubmitGenerated ==
    /\ call[1].op = "POST /generators/:id/generate"
    /\ result[1].status = 200
    /\ StartPost(2, {Submitted(result[1].page)})

\* Task 1 registers a generator and asks generators for a page pg; task 2
\* submits the page of the last answer to POST /pages.
NextSubmit ==
    \/ Register(SubmitRegisterBodies)
    \/ Generate(SubmitIds, {<<"p", "g">>}, GenerateData)
    \/ SubmitGenerated
    \/ C_Access(2)
    \/ WriteSteps(2)

SpecSubmit == Init /\ [][NextSubmit]_vars

---------------------------------------------------------------------------
(* Vocabulary of the properties.                                           *)

\* The destination <id>.json of task p's call.
DestOf(p) == getSafeFilePath(call[p].pageId).path

IsTempFile(f) == f # <<>> /\ f[Len(f)] # <<>> /\ f[Len(f)][Len(f[Len(f)])] = ".tmp"

\* <storageDir>/<name>.json, for a name that holds no path separator
DirectChild(path) ==
    /\ Len(path) = Len(PAGES_DIR) + 1
    /\ SubSeq(path, 1, Len(PAGES_DIR)) = PAGES_DIR
    /\ Len(path[Len(path)]) >= 2
    /\ IsPageFile(path)
    /\ \A i \in 1..Len(path[Len(path)]) : path[Len(path)][i] # "/"

\* A file directly in the storage directory.
InPagesDir(path) ==
    /\ Len(path) = Len(PAGES_DIR) + 1
    /\ SubSeq(path, 1, Len(PAGES_DIR)) = PAGES_DIR

\* Task p's call of op has returned or thrown.
Ended(p, op) == Finished(p) /\ call[p].op = op

\* What the destination of task p's call holds now.
Stored(p) == IF Exists(DestOf(p)) THEN files[DestOf(p)] ELSE Absent

---------------------------------------------------------------------------
(* Atomic writes.                                                          *)

\* C1: while writePage calls and readPage calls of the same id interleave,
\* no page file ever holds a truncated or mixed text, and every read
\* returns a complete document that was stored under the id at some time
\* (the one before the write or the new one), or PAGE_NOT_FOUND when
\* nothing was stored when it began; it fails otherwise only on an I/O
\* error of its own readFile.
C1_ReadsSeeWholeDocuments ==
    /\ \A f \in DOMAIN files : IsPageFile(f) => files[f].k = "json"
    /\ \A p \in Procs :
        Ended(p, "readPage") =>
            /\ result[p].code \in {"OK", "PAGE_NOT_FOUND", "READ_ERROR"}
            /\ result[p].code = "READ_ERROR" => faults > 0
            /\ result[p].code = "OK" => JSONstringify(result[p].page) \in history
            /\ result[p].code = "PAGE_NOT_FOUND" => before[p].file = Absent

\* A read has returned the new document of a write that has renamed its
\* temp file and not returned yet.
C1_Witness ==
    \E p, q \in Procs :
        /\ Ended(p, "readPage")
        /\ result[p].code = "OK"
        /\ pc[q] = "w_chmod"
        /\ result[p].page = lv[q].finalPageData
        /\ before[p].file # Absent
        /\ Text(before[p].file) # JSONstringify(result[p].page)

\* C2: a writePage that fails in writing its temp file or in the rename
\* leaves <id>.json absent if it was absent before the call, and otherwise
\* with the content (and the inode) it had before the call.
C2_FailedWriteLeavesDestination ==
    \A p \in Procs :
        /\ Ended(p, "writePage")
        /\ result[p].code = "WRITE_ERROR"
        /\ result[p].syscall \in {"open", "write", "rename"}
        => Stored(p) = before[p].file

\* A rename onto an existing page has failed.
C2_Witness ==
    \E p \in Procs :
        /\ Ended(p, "writePage")
        /\ result[p].code = "WRITE_ERROR"
        /\ result[p].syscall = "rename"
        /\ before[p].file # Absent
        /\ Stored(p) = before[p].file

\* C3 (as claimed): whenever writePage throws WRITE_ERROR, whichever of
\* the temp-file write, the rename and the chmod failed, <id>.json holds
\* what it held before the call, and the temp file is gone when its
\* unlink did not fail.
C3_AnyWriteErrorLeavesDestination ==
    \A p \in Procs :
        Ended(p, "writePage") /\ result[p].code = "WRITE_ERROR" =>
            /\ Stored(p) = before[p].file
            /\ faults = 1 => \A f \in DOMAIN files : ~IsTempFile(f)

---------------------------------------------------------------------------
(* Time stamps.                                                            *)

\* C4: after a successful writePage the stored document is the returned
\* one; its updated is the clock at a moment of the call (so never the
\* value the caller supplied, which is older); its created is that of the
\* document stored before the call if there was one, else the supplied
\* created, else its own updated.
C4_EffectiveMetadata ==
    \A p \in Procs :
        Ended(p, "writePage") /\ result[p].code = "OK" =>
            LET old == before[p].file
                new == Stored(p)
                pageData == call[p].pageData
            IN
            /\ new.k = "json"
            /\ new.v = result[p].page
            /\ before[p].time <= new.v.updated
            /\ new.v.updated <= clock
            /\ new.v.created =
                 IF old.k = "json" /\ old.v.created # 0 THEN old.v.created
                 ELSE IF pageData.created # 0 THEN pageData.created
                 ELSE new.v.updated

\* A write that supplied both time stamps has replaced a stored page.
C4_Witness ==
    \E p \in Procs :
        /\ Ended(p, "writePage")
        /\ result[p].code = "OK"
        /\ before[p].file.k = "json"
        /\ call[p].pageData.created # 0
        /\ call[p].pageData.updated # 0
        /\ before[p].file.v.updated >= FirstTick
        /\ Stored(p).v.updated > before[p].file.v.updated

\* C5 (as claimed): a successful writePage without created, over a
\* document stored by an earlier successful write, keeps its created and
\* stores a strictly greater updated.
C5_UpdatedStrictlyIncreases ==
    \A p \in Procs :
        /\ Ended(p, "writePage")
        /\ result[p].code = "OK"
        /\ call[p].pageData.created = 0
        /\ before[p].file.k = "json"
        /\ faults = 0
        => /\ Stored(p).v.created = before[p].file.v.created
           /\ Stored(p).v.updated > before[p].file.v.updated

\* C5 (amended): a successful writePage without created, over a stored
\* document, keeps its created and stores an updated that is not smaller
\* (the two are equal when both writes read the clock in one millisecond).
C5_UpdatedNeverDecreases ==
    \A p \in Procs :
        /\ Ended(p, "writePage")
        /\ result[p].code = "OK"
        /\ call[p].pageData.created = 0
        /\ before[p].file.k = "json"
        => /\ Stored(p).v.created = before[p].file.v.created
           /\ Stored(p).v.updated >= before[p].file.v.updated

\* Two successive writes of one id within one millisecond.
C5_Witness ==
    \E p \in Procs :
        /\ Ended(p, "writePage")
        /\ result[p].code = "OK"
        /\ call[p].pageData.created = 0
        /\ before[p].file.k = "json"
        /\ before[p].file.v.updated >= FirstTick
        /\ Stored(p).v.updated = before[p].file.v.updated
        /\ Stored(p).v.created = before[p].file.v.created

\* C6 (as claimed): while a page file holds a document, no step replaces
\* it by a document with another created.
C6_CreatedSetOnce ==
    [][\A f \in DOMAIN files :
          /\ IsPageFile(f)
          /\ files[f].k = "json"
          /\ f \in DOMAIN files'
          /\ files'[f].k = "json"
          /\ faults' = 0
          => files'[f].v.created = files[f].v.created]_vars

\* C7 (as claimed): every page file that holds a document is named after
\* the document's id, and no two files hold the same id.
C7_FileNamedAfterId ==
    /\ \A f \in DOMAIN files :
          IsPageFile(f) /\ files[f].k = "json" => files[f].v.id = Str(BaseName(f))
    /\ \A f, g \in DOMAIN files :
          /\ IsPageFile(f) /\ files[f].k = "json"
          /\ IsPageFile(g) /\ files[g].k = "json"
          /\ files[f].v.id = files[g].v.id
          => f = g

---------------------------------------------------------------------------
(* Path security.                                                          *)

\* An id that is, between leading and trailing white space, 1 to 100
\* characters of [A-Za-z0-9_-].
IdOk(pageId) ==
    /\ pageId.t = "string"
    /\ \E i, j \in 1..Len(pageId.s) :
        /\ i <= j
        /\ j - i + 1 <= 100
        /\ \A k \in 1..Len(pageId.s) :
              IF k < i \/ k > j THEN pageId.s[k] \in WhiteSpace
              ELSE pageId.s[k] \in WordChars

\* C8 (as claimed): getSafeFilePath fails with INVALID_PAGE_ID for every
\* id that is empty, is not a string, is longer than 100 characters after
\* trimming, or holds any character outside [A-Za-z0-9_-]; it returns a
\* path only for ids made solely of those characters.
C8_RejectsAnyCharacterOutside ==
    \A p \in Procs :
        Ended(p, "getSafeFilePath") =>
            LET id == call[p].pageId IN
            /\ \/ id.t # "string"
               \/ id.s = <<>>
               \/ Len(Trim(id.s)) > 100
               \/ \E i \in 1..Len(id.s) : id.s[i] \notin WordChars
               => result[p].code = "INVALID_PAGE_ID"
            /\ result[p].code = "OK"
               => \A i \in 1..Len(id.s) : id.s[i] \in WordChars

\* C8 (amended): getSafeFilePath fails with INVALID_PAGE_ID for every id
\* that is not a string or that, once its leading and trailing white space
\* is left out, is empty, is longer than 100 characters or holds a
\* character outside [A-Za-z0-9_-]; it returns a path, that of the trimmed
\* id, only for the other ids.
C8_RejectsBadTrimmedIds ==
    \A p \in Procs :
        Ended(p, "getSafeFilePath") =>
            LET id == call[p].pageId IN
            /\ ~IdOk(id) => result[p].code = "INVALID_PAGE_ID"
            /\ result[p].code = "OK" =>
                /\ IdOk(id)
                /\ \E i, j \in 1..Len(id.s) :
                      /\ \A k \in i..j : id.s[k] \in WordChars
                      /\ result[p].path =
                            Append(PAGES_DIR, Append(SubSeq(id.s, i, j), ".json"))
            /\ IdOk(id) => result[p].code = "OK"

\* A padded id of 101 word characters was rejected.
C8_Witness ==
    \E p \in Procs :
        /\ Ended(p, "getSafeFilePath")
        /\ Len(call[p].pageId.s) = 102
        /\ call[p].pageId.s[1] \in WhiteSpace
        /\ \A k \in 2..102 : call[p].pageId.s[k] \in WordChars
        /\ result[p].code = "INVALID_PAGE_ID"

\* The paths the running calls hold and the files that exist are all
\* directly in the storage directory.
NothingOutsidePagesDir ==
    /\ \A p \in Procs :
        /\ lv[p].filePath # NoPath => DirectChild(lv[p].filePath)
        /\ lv[p].tempPath # NoPath => InPagesDir(lv[p].tempPath)
    /\ \A f \in DOMAIN files : InPagesDir(f)

\* getSafeFilePath(id) failed with INVALID_PAGE_ID or PATH_TRAVERSAL.
Rejected(p) == result[p].code \in {"INVALID_PAGE_ID", "PATH_TRAVERSAL"}

NamedBadIds ==
    {Str(<<".", ".", "/", "s", "e", "c", "r", "e", "t">>),
     Str(<<"a", "/", "b">>),
     Str(<<>>)}

\* C9 (as claimed): getSafeFilePath fails with INVALID_PAGE_ID or
\* PATH_TRAVERSAL or returns a direct child <storageDir>/<name>.json;
\* "../secret", "a/b", "" and any id of length 101 fail; and no call
\* reads, writes or deletes a path outside the storage directory.
C9_AnyIdOfLength101Fails ==
    /\ \A p \in Procs :
        Ended(p, "getSafeFilePath") =>
            /\ Rejected(p) \/ (result[p].code = "OK" /\ DirectChild(result[p].path))
            /\ call[p].pageId \in NamedBadIds => Rejected(p)
            /\ call[p].pageId.t = "string" /\ Len(call[p].pageId.s) = 101
               => Rejected(p)
    /\ NothingOutsidePagesDir

\* C9 (amended): the same, for any id whose length after trimming is 101.
C9_PathsStayInStorageDir ==
    /\ \A p \in Procs :
        Ended(p, "getSafeFilePath") =>
            /\ Rejected(p) \/ (result[p].code = "OK" /\ DirectChild(result[p].path))
            /\ call[p].pageId \in NamedBadIds => Rejected(p)
            /\ call[p].pageId.t = "string" /\ Len(Trim(call[p].pageId.s)) = 101
               => Rejected(p)
    /\ NothingOutsidePagesDir

\* An id of 101 characters, none of them white space, was rejected.
C9_Witness ==
    \E p \in Procs :
        /\ Ended(p, "getSafeFilePath")
        /\ call[p].pageId.t = "string"
        /\ Len(call[p].pageId.s) = 101
        /\ Len(Trim(call[p].pageId.s)) = 101
        /\ Rejected(p)

---------------------------------------------------------------------------
(* The errors of readPage.                                                 *)

\* C10 (as claimed): readPage of a valid id, when no I/O request fails,
\* throws PAGE_NOT_FOUND exactly when <id>.json does not exist,
\* INVALID_JSON when its content does not parse, and INVALID_PAGE_DATA
\* whenever the parsed value, an object or not (null included), has no
\* truthy id or title; it returns the document otherwise.
C10_ReadErrorKinds ==
    \A p \in Procs :
        /\ Ended(p, "readPage")
        /\ getSafeFilePath(call[p].pageId).code = "OK"
        /\ faults = 0
        => LET f == Stored(p) IN
           /\ result[p].code = "PAGE_NOT_FOUND" <=> f = Absent
           /\ f # Absent /\ f.k # "json" => result[p].code = "INVALID_JSON"
           /\ f.k = "json" =>
                IF f.v.t # "object" \/ Falsy(f.v.id) \/ Falsy(f.v.title)
                THEN result[p].code = "INVALID_PAGE_DATA"
                ELSE result[p] = Returned(f.v)

---------------------------------------------------------------------------
(* Identity of a document.                                                 *)

\* C11 (as claimed): writePage(id, d), for a d that holds an id and a
\* title, with d.id different from id throws PAGE_ID_MISMATCH and leaves
\* the store as it was; and no step replaces the document of a page file
\* by a document with another id.
C11_IdNeverChanges ==
    [][/\ \A p \in Procs :
            /\ (Ended(p, "writePage"))'
            /\ call'[p].pageData.t = "object"
            /\ ~Falsy(call'[p].pageData.id)
            /\ ~Falsy(call'[p].pageData.title)
            /\ call'[p].pageData.id # call'[p].pageId
            => /\ result'[p].code = "PAGE_ID_MISMATCH"
               /\ files' = before'[p].store
       /\ \A f \in DOMAIN files :
            /\ IsPageFile(f)
            /\ files[f].k = "json"
            /\ f \in DOMAIN files'
            /\ files'[f].k = "json"
            => files'[f].v.id = files[f].v.id]_vars

---------------------------------------------------------------------------
(* Reading back what was written.                                          *)

\* C12 (as claimed): a readPage(id) that follows a successful writePage of
\* id, or a successful readPage of id, with no call between them, returns
\* the document that call returned; and the document a successful
\* writePage(id, d) returns has every property of d and the computed
\* metadata.
C12_ReadReturnsWhatWasWritten ==
    \A p \in Procs :
        /\ Ended(p, "readPage") /\ faults = 0
           /\ before[p].prev.op \in {"writePage", "readPage"}
           /\ before[p].prev.code = "OK"
           /\ before[p].prev.pageId = call[p].pageId
           => result[p] = Returned(before[p].prev.page)
        /\ Ended(p, "writePage") /\ result[p].code = "OK"
           => LET d == call[p].pageData IN
              /\ result[p].page.id = d.id
              /\ result[p].page.title = d.title
              /\ result[p].page.slug = d.slug
              /\ result[p].page.updated >= before[p].time

---------------------------------------------------------------------------
(* Deleting.                                                               *)

C14_ListedNewestFirst ==
    \A p \in Procs :
        Ended(p, "listPages") /\ result[p].code = "OK"
        => \A i, j \in 1..Len(result[p].pages) :
              i < j =>
                /\ result[p].pages[i].updated # 0 /\ result[p].pages[j].updated # 0
                   => result[p].pages[i].updated >= result[p].pages[j].updated
                /\ ~(result[p].pages[i].updated = 0 /\ result[p].pages[j].updated # 0)

\* C14: three documents updated at 1 < 2 < 3 were listed as 3, 2, 1.
C14_Witness ==
    /\ Ended(1, "listPages") /\ result[1].code = "OK"
    /\ Len(result[1].pages) = 3
    /\ [i \in 1..3 |-> result[1].pages[i].updated] = <<3, 2, 1>>
    /\ [i \in 1..3 |-> result[1].pages[i].id] = <<PageIdNo(1), PageIdNo(3), PageIdNo(2)>>

\* A file content readPage decodes: JSON text of an object with id and title.
ValidDoc(c) ==
    c.k = "json" /\ c.v.t = "object" /\ ~Falsy(c.v.id) /\ ~Falsy(c.v.title)

\* C15 listPages never fails because of an individual file: unless a
\* request on the directory itself fails it returns a list, whatever the
\* files hold.  The list has one summary, and only one, for each .json
\* file that holds a decodable document; files that are malformed or lack
\* id or title, and files deleted between the scan and their read, are
\* left out; a missing storage directory gives the empty list.
C15_ListSkipsUnreadableFiles ==
    \A p \in Procs :
        Ended(p, "listPages")
        => /\ result[p].code \in {"OK", "LIST_ERROR"}
           /\ faults = 0 => result[p].code = "OK"
           /\ result[p].code = "OK"
              => /\ \A i \in 1..Len(result[p].pages) :
                      \E f \in DOMAIN before[p].store :
                          /\ IsPageFile(f)
                          /\ ValidDoc(before[p].store[f])
                          /\ result[p].pages[i] = Summary(before[p].store[f].v)
                 /\ \A i, j \in 1..Len(result[p].pages) :
                      i # j => result[p].pages[i].id # result[p].pages[j].id
                 /\ faults = 0
                    => \A f \in DOMAIN before[p].store :
                          /\ ValidDoc(before[p].store[f])
                          /\ f \in DOMAIN files
                          /\ files[f] = before[p].store[f]
                          => \E i \in 1..Len(result[p].pages) :
                                result[p].pages[i] = Summary(before[p].store[f].v)
                 /\ ~before[p].dir => result[p].pages = <<>>

\* C15: the store held a file of random bytes (p1.json) and a page
\* (p2.json); the page was deleted after listPages had scanned the
\* directory and before it read the file, and the list came back empty.
C15_Witness ==
    /\ Ended(1, "listPages") /\ result[1].code = "OK" /\ faults = 0
    /\ Ended(2, "deletePage") /\ result[2].code = "OK" /\ call[2].pageId = P2
    /\ before[2].pcs[1] = "l_read"
    /\ getSafeFilePath(P1).path \in DOMAIN before[1].store
    /\ before[1].store[getSafeFilePath(P1).path].k = "random"
    /\ getSafeFilePath(P2).path \in DOMAIN before[1].store
    /\ ValidDoc(before[1].store[getSafeFilePath(P2).path])
    /\ result[1].pages = <<>>

\* C15: listPages found no storage directory and returned the empty list.
C15_WitnessNoDirectory ==
    /\ Ended(1, "listPages") /\ result[1].code = "OK"
    /\ ~before[1].dir /\ result[1].pages = <<>>

\* The summaries of the decodable pages of the store.
StoredSummaries ==
    {Summary(files[f].v) : f \in {g \in DOMAIN files : IsPageFile(g) /\ ValidDoc(files[g])}}

\* The query is empty, absent or only whitespace.
BlankQuery(query) == Falsy(query) \/ (query.t = "string" /\ Trim(query.s) = <<>>)

\* The value v is a string that contains the trimmed query, letter case
\* set aside.
ContainsQuery(v, query) ==
    v.t = "string" /\ Includes(ToLowerCase(v.s), ToLowerCase(Trim(query.s)))

\* C16 searchPages(q) returns the whole list of listPages when q is empty,
\* absent or only whitespace, and otherwise exactly the summaries whose
\* id, title or slug contains the trimmed q, letter case set aside, in the
\* order of listPages (newest first, documents without updated last).
C16_SearchFiltersList ==
    \A p \in Procs :
        /\ Ended(p, "searchPages") /\ faults = 0
        /\ call[p].query.t \in {"undefined", "string"}
        => LET query == call[p].query
               expected ==
                   IF BlankQuery(query) THEN StoredSummaries
                   ELSE {s \in StoredSummaries :
                            \/ ContainsQuery(s.id, query)
                            \/ ContainsQuery(s.title, query)
                            \/ ContainsQuery(s.slug, query)}
               pages == result[p].pages
           IN /\ result[p].code = "OK"
              /\ {pages[i] : i \in 1..Len(pages)} = expected
              /\ Len(pages) = Cardinality(expected)
              /\ \A i, j \in 1..Len(pages) :
                    i < j => /\ pages[i].updated # 0 /\ pages[j].updated # 0
                                => pages[i].updated >= pages[j].updated
                             /\ ~(pages[i].updated = 0 /\ pages[j].updated # 0)

\* C17 importPage(d, overwrite) for a page d: when a document is stored
\* under d.id and overwrite is false the call fails with PAGE_EXISTS and
\* the store is as it was; when no file is stored under d.id, or overwrite
\* is true, d is stored through writePage and the stored document is
\* returned.
C17_ImportRespectsOverwrite ==
    \A p \in Procs :
        /\ Ended(p, "importPage")
        /\ ImportSync(call[p].jsonData) = "OK"
        /\ before[p].file = Absent \/ ValidDoc(before[p].file)
        => /\ before[p].file # Absent /\ ~call[p].overwrite
              => /\ result[p].code = "PAGE_EXISTS"
                 /\ files = before[p].store
           /\ (before[p].file = Absent \/ call[p].overwrite) /\ faults = 0
              => /\ result[p].code = "OK"
                 /\ Exists(DestOf(p))
                 /\ Text(Stored(p)) = JSONstringify(result[p].page)
                 /\ result[p].page.id = call[p].jsonData.v.id
                 /\ result[p].page.title = call[p].jsonData.v.title

\* The bundle is well formed: JSON text of an object with a version and
\* an array of pages.
WellFormed(bundle) ==
    bundle.k = "json" /\ bundle.t = "object" /\ bundle.version /\ bundle.isArray

\* The entry is a page: an object with id and title.
ValidEntry(page) == page.t = "object" /\ ~Falsy(page.id) /\ ~Falsy(page.title)

\* C18 restoreFromBackup of a well-formed bundle never raises because of
\* an entry: it returns results in which every entry is counted as
\* restored, skipped or as an error, and every valid entry whose id was
\* unused is stored afterwards; for three entries of which one lacks a
\* required field, an empty store and overwrite false the results are
\* total 3, restored 2, skipped 0 and one error.
C18_RestoreNeverRaises ==
    \A p \in Procs :
        Ended(p, "restoreFromBackup") /\ WellFormed(call[p].bundle)
        => LET pages == call[p].bundle.pages IN
           /\ result[p].code = "OK"
           /\ result[p].total = Len(pages)
           /\ result[p].restored + result[p].skipped + Len(result[p].errors)
                 = Len(pages)
           /\ faults = 0
              => \A i \in 1..Len(pages) :
                    /\ ValidEntry(pages[i])
                    /\ getSafeFilePath(pages[i].id).path \notin DOMAIN before[p].store
                    => /\ Exists(getSafeFilePath(pages[i].id).path)
                       /\ ValidDoc(files[getSafeFilePath(pages[i].id).path])
                       /\ files[getSafeFilePath(pages[i].id).path].v.id = pages[i].id
           /\ /\ faults = 0 /\ Len(pages) = 3 /\ before[p].store = << >>
              /\ ~call[p].overwrite
              /\ \E i \in 1..3 :
                    /\ ~ValidEntry(pages[i])
                    /\ \A j, k \in (1..3) \ {i} :
                          /\ ValidEntry(pages[j])
                          /\ j # k => pages[j].id # pages[k].id
              => /\ result[p].restored = 2 /\ result[p].skipped = 0
                 /\ Len(result[p].errors) = 1
                 /\ Cardinality(DOMAIN files) = 2

\* The entries of the bundle whose id was stored when the call began.
StoredEntries(p) ==
    {i \in 1..Len(call[p].bundle.pages) :
        /\ call[p].bundle.pages[i].t = "object"
        /\ getSafeFilePath(call[p].bundle.pages[i].id).path
             \in DOMAIN before[p].store}

\* C19 restoreFromBackup(b, overwrite = false) leaves every document that
\* was stored before the call as it was, and each entry of b whose id was
\* already stored is counted in skipped and not recorded in errors.
C19_RestoreKeepsStoredPages ==
    \A p \in Procs :
        /\ Ended(p, "restoreFromBackup") /\ WellFormed(call[p].bundle)
        /\ ~call[p].overwrite
        => /\ \A f \in DOMAIN before[p].store :
                 f \in DOMAIN files /\ files[f] = before[p].store[f]
           /\ result[p].code = "OK"
              => /\ result[p].skipped >= Cardinality(StoredEntries(p))
                 /\ \A k \in 1..Len(result[p].errors) :
                       \A i \in StoredEntries(p) :
                           result[p].errors[k].pageId # call[p].bundle.pages[i].id

\* C20 backupAllPages never fails because of an individual file: unless
\* a request on the directory itself fails it returns a bundle with
\* version "1.0" whose pageCount is the number of its pages, and whose
\* pages are the full documents, one each, of the .json files that hold a
\* decodable document; unreadable files are left out.
C20_BackupHoldsReadablePages ==
    \A p \in Procs :
        Ended(p, "backupAllPages")
        => /\ faults = 0 => result[p].code = "OK"
           /\ result[p].code = "OK"
              => /\ result[p].version = "1.0"
                 /\ result[p].total = Len(result[p].pages)
                 /\ \A i \in 1..Len(result[p].pages) :
                      \E f \in DOMAIN before[p].store :
                          /\ IsPageFile(f)
                          /\ ValidDoc(before[p].store[f])
                          /\ result[p].pages[i] = before[p].store[f].v
                 /\ \A i, j \in 1..Len(result[p].pages) :
                      i # j => result[p].pages[i].id # result[p].pages[j].id
                 /\ faults = 0
                    => \A f \in DOMAIN before[p].store :
                          /\ ValidDoc(before[p].store[f])
                          /\ f \in DOMAIN files
                          /\ files[f] = before[p].store[f]
                          => \E i \in 1..Len(result[p].pages) :
                                result[p].pages[i] = before[p].store[f].v

\* C20: the store held a page (p1.json) and a truncated file (p2.json);
\* the bundle holds the page alone and its pageCount is 1.
C20_Witness ==
    /\ Ended(1, "backupAllPages") /\ result[1].code = "OK" /\ faults = 0
    /\ DOMAIN files = {getSafeFilePath(P1).path, getSafeFilePath(P2).path}
    /\ ValidDoc(files[getSafeFilePath(P1).path])
    /\ files[getSafeFilePath(P2).path].k = "partial"
    /\ result[1].pages = <<files[getSafeFilePath(P1).path].v>>
    /\ result[1].total = 1 /\ result[1].version = "1.0"

\* Task p is inside a writePage call.
Writing(p) == pc[p] # "idle" /\ call[p].op = "writePage"

\* C21 Two writePage calls for different ids do not interfere: while both
\* run they use distinct destinations and distinct temp files; without
\* I/O failure both succeed; and when both have succeeded each id's file
\* holds the document its own call returned.
C21_DifferentIdsDoNotInterfere ==
    \A p, q \in Procs :
        p # q /\ call[p].pageId # call[q].pageId
        => /\ Writing(p) /\ Writing(q)
              => /\ lv[p].filePath # lv[q].filePath
                 /\ lv[p].tempPath # NoPath => lv[p].tempPath # lv[q].tempPath
           /\ Ended(p, "writePage") /\ Ended(q, "writePage")
              => /\ faults = 0 => result[p].code = "OK" /\ result[q].code = "OK"
                 /\ result[p].code = "OK" /\ result[q].code = "OK"
                    => /\ Exists(DestOf(p))
                       /\ Text(Stored(p)) = JSONstringify(result[p].page)

\* C22 Two writePage calls for the same id each run their whole cycle:
\* without I/O failure both succeed; the content of <id>.json only ever
\* changes by the rename of one call, which puts there the complete
\* document that call returns; so once both have returned the file holds
\* the document of the call that renamed last, never a mixture.
C22_LastRenameWins ==
    /\ [](\A p, q \in Procs :
            /\ p # q /\ Ended(p, "writePage") /\ Ended(q, "writePage")
            /\ call[p].pageId = call[q].pageId /\ faults = 0
            => /\ result[p].code = "OK" /\ result[q].code = "OK"
               /\ Exists(DestOf(p))
               /\ \/ Text(Stored(p)) = JSONstringify(result[p].page)
                  \/ Text(Stored(p)) = JSONstringify(result[q].page))
    /\ [][\A f \in DOMAIN files' :
            /\ IsPageFile(f)
            /\ f \notin DOMAIN files \/ Text(files'[f]) # Text(files[f])
            => \E p \in Procs :
                  /\ pc[p] = "w_rename" /\ pc'[p] = "w_chmod"
                  /\ lv[p].filePath = f
                  /\ Text(files'[f]) = JSONstringify(lv[p].finalPageData)
                  /\ lv'[p].finalPageData = lv[p].finalPageData]_vars
    /\ [][\A p \in Procs :
            pc[p] = "w_chmod" /\ pc'[p] = "idle" /\ result'[p].code = "OK"
            => result'[p].page = lv[p].finalPageData]_vars

\* C22: two writes of p1 overlapped, both returned, and the file holds the
\* document of the call that began first (its rename came last).
C22_Witness ==
    /\ Ended(1, "writePage") /\ Ended(2, "writePage")
    /\ result[1].code = "OK" /\ result[2].code = "OK" /\ faults = 0
    /\ before[2].pcs[1] \in {"w_mkdir", "w_open", "w_write", "w_rename"}
    /\ result[1].page.title # result[2].page.title
    /\ Text(Stored(1)) = JSONstringify(result[1].page)

\* The operations that take a page id and resolve it first.
IdOperations == {"readPage", "writePage", "deletePage", "getPageStats"}

\* The step in which task 1 makes its one call, of an operation of ops.
Calls(ops) == calls = 0 /\ calls' = 1 /\ call'[1].op \in ops

\* The step makes no request to the file system and changes nothing there.
NoIo == pc'[1] = "idle" /\ files' = files /\ dirExists' = dirExists /\ faults' = faults

\* C23 (as claimed): readPage, writePage, deletePage and getPageStats
\* called with an id that fails the format or length rules fail with
\* INVALID_PAGE_ID in the step of the call itself, before any request to
\* the file system: nothing is read, created, modified or removed.
C23_BadIdFailsWithInvalidPageId ==
    [][Calls(IdOperations) /\ ~IdOk(call'[1].pageId)
       => NoIo /\ result'[1].code = "INVALID_PAGE_ID"]_vars

\* C23 (amended): with such an id the four operations fail in the step of
\* the call itself, before any request to the file system; readPage,
\* deletePage and getPageStats fail with INVALID_PAGE_ID, and so does
\* writePage unless it has rejected its page data first (INVALID_PAGE_DATA
\* for data that is no object or lacks id or title, PAGE_ID_MISMATCH for
\* data with another id), which it checks before the id.
C23_BadIdFailsBeforeAnyIo ==
    [][Calls(IdOperations) /\ ~IdOk(call'[1].pageId)
       => /\ NoIo
          /\ call'[1].op # "writePage" => result'[1].code = "INVALID_PAGE_ID"
          /\ call'[1].op = "writePage"
             => /\ ~ValidEntry(call'[1].pageData)
                   => result'[1].code = "INVALID_PAGE_DATA"
                /\ ValidEntry(call'[1].pageData)
                   /\ call'[1].pageData.id # call'[1].pageId
                   => result'[1].code = "PAGE_ID_MISMATCH"
                /\ ValidEntry(call'[1].pageData)
                   /\ call'[1].pageData.id = call'[1].pageId
                   => result'[1].code = "INVALID_PAGE_ID"]_vars

\* C23: writePage("a/b", {id: "a/b", title: "A"}) failed with
\* INVALID_PAGE_ID and the store, which held a file, is as it was.
C23_Witness ==
    /\ Ended(1, "writePage") /\ call[1].pageId = Str(<<"a", "/", "b">>)
    /\ call[1].pageData.id = call[1].pageId
    /\ result[1].code = "INVALID_PAGE_ID"
    /\ files # << >> /\ files = before[1].store /\ faults = 0

\* The call of task p ended with an error that a failed request to the
\* file system caused: its cause is the error of that request.
IoFailure(p) == result[p].cause \in {"EIO", "ENOENT"}

\* C24 (as claimed): every lower-level I/O failure during writePage, in
\* its pre-read, the creation of the directory, the temp-file write, the
\* rename or the chmod, is reported as WRITE_ERROR carrying the cause, and
\* every such failure during deletePage as DELETE_ERROR carrying the cause.
C24_OneWriteFailureKind ==
    \A p \in Procs :
        /\ Ended(p, "writePage") /\ IoFailure(p) => result[p].code = "WRITE_ERROR"
        /\ Ended(p, "deletePage") /\ IoFailure(p) => result[p].code = "DELETE_ERROR"
        /\ Ended(p, "writePage") /\ result[p].code \notin {"OK", "WRITE_ERROR"}
           => faults = 0
        /\ Ended(p, "deletePage")
           /\ result[p].code \notin {"OK", "DELETE_ERROR", "PAGE_NOT_FOUND"}
           => faults = 0

\* C24 (amended): a lower-level I/O failure during writePage is reported
\* with the original cause as READ_ERROR when it happens in the pre-read,
\* as PAGES_DIR_ERROR in the creation of the directory, and as WRITE_ERROR
\* in the temp-file write, the rename or the chmod; during deletePage it is
\* reported as DELETE_ERROR with the cause, a missing file (ENOENT) as
\* PAGE_NOT_FOUND.
C24_FailureKindsByStep ==
    /\ [](\A p \in Procs :
            /\ Ended(p, "writePage")
               => /\ result[p].code = "WRITE_ERROR"
                     => /\ result[p].syscall \in {"open", "write", "rename", "chmod"}
                        /\ IoFailure(p)
                  /\ result[p].code = "PAGES_DIR_ERROR" => result[p].cause = "EIO"
                  /\ result[p].code = "READ_ERROR"
                     => result[p].cause \in {"EIO", "TypeError"}
            /\ Ended(p, "deletePage")
               => /\ result[p].code = "DELETE_ERROR" <=> result[p].cause = "EIO"
                  /\ result[p].code \in {"OK", "DELETE_ERROR", "PAGE_NOT_FOUND",
                                         "INVALID_PAGE_ID"})
    /\ [][\A p \in Procs :
            pc'[p] # pc[p] /\ faults' > faults
            => /\ pc[p] = "w_readFile"
                  => /\ pc'[p] = "idle"
                     /\ result'[p] = Wrapped("READ_ERROR", "EIO")
               /\ pc[p] = "w_mkdir"
                  => /\ pc'[p] = "idle"
                     /\ result'[p] = Wrapped("PAGES_DIR_ERROR", "EIO")
               /\ pc[p] \in {"w_open", "w_write", "w_rename", "w_chmod"}
                  => pc'[p] = "w_unlink" /\ lv'[p].errno = "EIO"
               /\ call[p].op = "deletePage"
                  => /\ pc'[p] = "idle"
                     /\ result'[p] = Wrapped("DELETE_ERROR", "EIO")]_vars
    /\ [][\A p \in Procs :
            pc[p] = "w_unlink" /\ pc'[p] # pc[p]
            => /\ result'[p].code = "WRITE_ERROR"
               /\ result'[p].cause = lv[p].errno
               /\ lv[p].errno \in {"EIO", "ENOENT"}]_vars

\* C24: a writePage whose pre-read failed ended with READ_ERROR.
C24_Witness ==
    \E p \in Procs :
        /\ Ended(p, "writePage") /\ result[p].code = "READ_ERROR"
        /\ result[p].cause = "EIO" /\ faults = 1

\* C25 pageExists(id) never throws, whatever the id: it returns a
\* boolean, true only when the id is valid and its file exists, false for
\* every id that does not resolve and whenever the file is absent or the
\* access fails; for a valid id whose file exists and whose access does
\* not fail it returns true.
C25_PageExistsNeverThrows ==
    \A p \in Procs :
        Ended(p, "pageExists")
        => /\ result[p].code = "OK"
           /\ result[p].exists
              => /\ IdOk(call[p].pageId)
                 /\ before[p].file # Absent
                 /\ faults = 0
           /\ IdOk(call[p].pageId) /\ before[p].file # Absent /\ faults = 0
              => result[p].exists

\* C25: pageExists of a valid padded id whose file is stored returned
\* true.
C25_Witness ==
    /\ Ended(1, "pageExists") /\ result[1].code = "OK" /\ result[1].exists
    /\ call[1].pageId = Str(<<" ", "p">>)

\* C25: pageExists("../secret") returned false.
C25_WitnessBadId ==
    /\ Ended(1, "pageExists") /\ result[1].code = "OK" /\ ~result[1].exists
    /\ call[1].pageId = Str(<<".", ".", "/", "s", "e", "c", "r", "e", "t">>)

\* C25: the access of a stored file failed and pageExists returned false.
C25_WitnessAccessFailed ==
    /\ Ended(1, "pageExists") /\ result[1].code = "OK" /\ ~result[1].exists
    /\ before[1].file # Absent /\ faults = 1

\* C26 POST /pages never replaces an existing page: while no I/O request
\* fails, a create for an id that is stored is answered 409 and leaves the
\* stored page as it was, and of two creates for the same id, one after
\* the other or interleaved, at most one is answered 201.
C26_CreateNeverReplaces ==
    faults = 0 =>
        /\ \A p \in Procs :
              Ended(p, "POST /pages") /\ before[p].file # Absent =>
                  /\ result[p].status = 409
                  /\ Exists(DestOf(p))
                  /\ files[DestOf(p)] = before[p].file
        /\ \A p, q \in Procs :
              /\ p # q
              /\ Ended(p, "POST /pages") /\ Ended(q, "POST /pages")
              /\ DestOf(p) = DestOf(q)
              => ~(result[p].status = 201 /\ result[q].status = 201)

\* The last request to the generators router.
Asked(op) == call[1].op = op

\* C27 After any sequence of register and delete requests (and others)
\* every built-in generator is still listed with its original definition
\* and no custom id is a built-in id; a register request for an id that
\* names a built-in or an already registered custom generator is rejected
\* (422) and changes nothing; a delete request for a built-in is answered
\* 403 and changes nothing.
C27_BuiltInsStayIntact ==
    /\ [](/\ \A id \in DOMAIN generators :
                getAllGenerators(customGenerators)[id] = generators[id]
          /\ (DOMAIN customGenerators) \cap (DOMAIN generators) = {}
          /\ Asked("GET /generators") =>
                \A id \in DOMAIN generators :
                    [id |-> Str(id), name |-> generators[id].name,
                     isCustom |-> FALSE] \in result[1].generators)
    /\ [][/\ call'[1].op = "POST /generators/custom/register"
          /\ call'[1].pageId.s \in (DOMAIN generators) \cup (DOMAIN customGenerators)
          => result'[1].status = 422 /\ UNCHANGED customGenerators]_vars
    /\ [][/\ call'[1].op = "DELETE /generators/custom/:id"
          /\ call'[1].pageId.s \in DOMAIN generators
          => result'[1].status = 403 /\ UNCHANGED customGenerators]_vars

\* C27: with a custom generator registered, a register request for the
\* built-in id faq was rejected.
C27_Witness ==
    /\ Asked("POST /generators/custom/register")
    /\ call[1].pageId = Str(<<"f", "a", "q">>)
    /\ result[1].status = 422
    /\ customGenerators # << >>

\* C27: after a custom generator was registered and deleted again, the
\* list was asked for.
C27_WitnessListed ==
    /\ Asked("GET /generators")
    /\ Cardinality(result[1].generators) = Cardinality(DOMAIN generators) + 1

\* C28 GET /generators/:id and POST /generators/:id/generate answer 404 for
\* every id that passes the id validation and is neither a built-in nor a
\* registered custom generator.
C28_UnknownGeneratorIsNotFound ==
    /\ \/ Asked("GET /generators/:id")
       \/ Asked("POST /generators/:id/generate")
    /\ result[1].status # 422
    /\ call[1].pageId.s \notin (DOMAIN generators) \cup (DOMAIN customGenerators)
    => result[1].status = 404

\* C29 When two PUT /pages/:id requests for the same page that assign
\* disjoint fields (one the title, one the slug) have both been answered
\* 200, with no I/O failure, the stored page has the title of the one and
\* the slug of the other.
C29_BothUpdatesStored ==
    /\ faults = 0
    /\ \A p \in Procs : Ended(p, "PUT /pages/:id") /\ result[p].status = 200
    /\ DestOf(1) = DestOf(2)
    => /\ Exists(DestOf(1))
       /\ files[DestOf(1)].k = "json"
       /\ files[DestOf(1)].v.title = call[1].body.title
       /\ files[DestOf(1)].v.slug = call[2].body.slug

\* The rename of task p's writePage takes effect in this step.
Renames(p) == pc[p] = "w_rename" /\ pc'[p] = "w_chmod"

\* C30 While no I/O request fails, importPage(d, overwrite = false) never
\* replaces a document stored under d.id, however its steps interleave
\* with another writer of the id: when its rename takes effect no file is
\* stored under d.id.
C30_ImportNeverReplaces ==
    [][\A p \in Procs :
          /\ call[p].op = "importPage" /\ ~call[p].overwrite
          /\ Renames(p)
          /\ faults' = 0
          => ~Exists(lv[p].filePath)]_vars

\* C31 For every well-formed bundle the results restoreFromBackup returns
\* satisfy total = number of entries = restored + skipped + number of
\* recorded errors (every entry is counted once), and skipped is 0
\* whenever overwrite is true.
C31_RestoreCountsEveryEntry ==
    \A p \in Procs :
        /\ Ended(p, "restoreFromBackup") /\ WellFormed(call[p].bundle)
        /\ result[p].code = "OK"
        => /\ result[p].total = Len(call[p].bundle.pages)
           /\ result[p].total
                = result[p].restored + result[p].skipped + Len(result[p].errors)
           /\ call[p].overwrite => result[p].skipped = 0

\* C31: a bundle of three entries was restored with overwrite over a store
\* that held one of its pages; one entry was recorded as an error.
C31_Witness ==
    /\ Ended(1, "restoreFromBackup") /\ WellFormed(call[1].bundle)
    /\ result[1].code = "OK" /\ call[1].overwrite
    /\ result[1].total = 3 /\ result[1].restored = 2
    /\ Len(result[1].errors) = 1
    /\ StoredEntries(1) # {}

\* C31: without overwrite an entry was skipped, one restored and one
\* recorded as an error.
C31_WitnessSkipped ==
    /\ Ended(1, "restoreFromBackup") /\ WellFormed(call[1].bundle)
    /\ result[1].code = "OK" /\ ~call[1].overwrite
    /\ result[1].restored = 1 /\ result[1].skipped = 1
    /\ Len(result[1].errors) = 1

\* C32 restoreFromBackup(b, overwrite = true) of the bundle b taken in S,
\* after later writePage and deletePage calls and with no I/O failure,
\* reports restored = number of documents of S and leaves every document
\* of S stored with all fields as in S, metadata.created included and
\* metadata.updated set aside.
C32_RestoreBringsBackSavedPages ==
    Ended(1, "restoreFromBackup") /\ faults = 0
    => /\ result[1].code = "OK"
       /\ result[1].restored = Len(SavedBundle.pages)
       /\ Exists(getSafeFilePath(SavedPage.id).path)
       /\ [files[getSafeFilePath(SavedPage.id).path].v EXCEPT !.updated = 0]
            = [SavedPage EXCEPT !.updated = 0]

\* The file task p's call found under its id held no valid document.
FoundCorrupt(p) == before[p].file # Absent /\ ~ValidDoc(before[p].file)

C33_WitnessNoTitle ==
    /\ Ended(1, "writePage") /\ FoundCorrupt(1)
    /\ before[1].file.k = "json" /\ before[1].file.v.t = "object"
    /\ result[1].code = "INVALID_PAGE_DATA"

\* C33: after a failed write the corrupt file was deleted.
C33_WitnessDeleted ==
    /\ Ended(1, "deletePage") /\ FoundCorrupt(1) /\ ~Exists(DestOf(1))
    /\ before[1].prev.op = "writePage" /\ before[1].prev.code = "INVALID_JSON"

\* C34 When deletePage(id, secureDelete) fails with DELETE_ERROR, for
\* either value of secureDelete and whichever step failed, the file
\* <id>.json still holds what it held before the call.
C34_FailedDeleteKeepsDocument ==
    /\ Ended(1, "deletePage") /\ result[1].code = "DELETE_ERROR"
    /\ before[1].file # Absent
    => /\ Exists(DestOf(1))
       /\ Text(files[DestOf(1)]) = Text(before[1].file)

\* C35 However the steps of deletePage(id, secureDelete = true) and of
\* concurrent readPage(id) calls interleave, with no I/O failure, a read
\* returns a complete document that was stored or fails with
\* PAGE_NOT_FOUND: it neither fails with INVALID_JSON nor returns
\* overwritten content.
C35_ReadsDuringSecureDelete ==
    \A p \in Procs :
        /\ Ended(p, "readPage") /\ faults = 0
        /\ before[p].file # Absent
        => \/ result[p].code = "PAGE_NOT_FOUND"
           \/ /\ result[p].code = "OK"
              /\ JSONstringify(result[p].page) \in history


\* The sections of a stored page have the orders 0, 1, ... in sequence.
OrdersArePositions(sections) ==
    \A i \in 1..Len(sections) : sections[i].order = i - 1

\* Task p's DELETE of a section has read a page that has no such section.
ReadsUnknownSection(p) ==
    /\ pc[p] = "x_readFile"
    /\ pc'[p] # "x_readFile"
    /\ Exists(lv[p].filePath)
    /\ ValidDoc(files[lv[p].filePath])
    /\ \A i \in 1..Len(files[lv[p].filePath].v.sections) :
          files[lv[p].filePath].v.sections[i].id # call[p].body.sectionId

\* C36 After any sequence of section additions and deletions through the
\* pages router, alone or interleaved, and whatever I/O request fails, the
\* sections of every stored page have the orders 0, 1, ..., n-1 in the
\* order of the list.  A DELETE that names a section id the page it reads
\* does not have is answered 404 (500 if the read itself fails) and writes
\* nothing.
C36_SectionOrdersArePositions ==
    /\ [](\A path \in DOMAIN files :
              files[path].k = "json" /\ files[path].v.t = "object"
              => OrdersArePositions(files[path].v.sections))
    /\ [][\A p \in Procs :
              ReadsUnknownSection(p)
              => /\ pc'[p] = "idle"
                 /\ result'[p].status \in {404, 500}
                 /\ faults' = faults => result'[p].status = 404
                 /\ files' = files]_vars

\* The first of two sections was deleted: the other one has order 0.
C36_Witness ==
    /\ Ended(2, "DELETE /pages/:id/sections/:sectionId")
    /\ result[2].status = 200
    /\ Len(before[2].file.v.sections) = 2
    /\ before[2].file.v.sections[1].id = call[2].body.sectionId
    /\ Exists(DestOf(2))
    /\ Len(files[DestOf(2)].v.sections) = 1
    /\ files[DestOf(2)].v.sections[1].id = before[2].file.v.sections[2].id
    /\ files[DestOf(2)].v.sections[1].order = 0

\* A section was added to a page that had two.
C36_WitnessAdded ==
    /\ Ended(1, "POST /pages/:id/sections")
    /\ result[1].status = 201
    /\ Len(before[1].file.v.sections) = 2
    /\ Exists(DestOf(1))
    /\ Len(files[DestOf(1)].v.sections) = 3
    /\ files[DestOf(1)].v.sections[3].order = 2

\* A DELETE of a section the page does not have was answered 404.
C36_WitnessUnknown ==
    /\ Ended(2, "DELETE /pages/:id/sections/:sectionId")
    /\ result[2].status = 404
    /\ Len(before[2].file.v.sections) = 2
    /\ files = before[2].store


\* The functions that scan the directory, after ensurePagesDir().
ScanOps == {"listPages", "searchPages", "backupAllPages"}

\* C37 readPage, pageExists, getPageStats, exportPage, listPages,
\* searchPages and backupAllPages never create, modify or delete a file:
\* no step of such a call (all the calls of task 1) changes the files,
\* whatever I/O request fails and whatever another task does meanwhile, and
\* when no other task has been at work the store after the call is the
\* store before it.  Only the functions that scan the directory may create
\* the storage directory, when it is missing.
C37_ReadersLeaveDocumentsAlone ==
    /\ [](Finished(1) /\ call[2].op = "none"
            => /\ files = before[1].store
               /\ dirExists # before[1].dir
                    => call[1].op \in ScanOps /\ ~before[1].dir /\ dirExists)
    /\ [][pc'[1] # pc[1]
            => /\ files' = files
               /\ dirExists' # dirExists
                    => call[1].op \in ScanOps /\ ~dirExists]_vars

\* A backup of a store holding p1 has returned it, the store unchanged.
C37_Witness ==
    /\ Ended(1, "backupAllPages")
    /\ call[2].op = "none"
    /\ result[1].code = "OK"
    /\ Len(result[1].pages) = 1
    /\ files = before[1].store
    /\ files # << >>

\* listPages has created the storage directory.
C37_WitnessDirectory ==
    /\ Ended(1, "listPages")
    /\ call[2].op = "none"
    /\ ~before[1].dir
    /\ dirExists

\* exportPage has returned the text of p1 while task 2 was deleting p1.
C37_WitnessExport ==
    /\ Ended(1, "exportPage")
    /\ result[1].code = "OK"
    /\ pc[2] = "d_unlink"


\* What a scan returns for a page it read from a file with the text c.
EntryOf(op, c) ==
    IF op = "backupAllPages" THEN JSONstringify(c.v).v ELSE Summary(c.v)

\* C38 In every reachable state, with writes in flight and with temp files
\* left behind, listPages, searchPages and backupAllPages read only files
\* whose name ends in .json, none of them a temp file, and every entry they
\* return is that of a content a .json file has had: no temp file's name
\* ends in .json, neither of a file in the store nor of a write in flight.
C38_ScansSkipTempFiles ==
    /\ \A f \in DOMAIN files : IsTempFile(f) => ~IsPageFile(f)
    /\ \A p \in Procs :
          /\ lv[p].tempPath # NoPath
             => IsTempFile(lv[p].tempPath) /\ ~IsPageFile(lv[p].tempPath)
          /\ \A i \in 1..Len(lv[p].todo) :
                IsPageFile(lv[p].todo[i]) /\ ~IsTempFile(lv[p].todo[i])
          /\ Finished(p) /\ call[p].op \in ScanOps /\ result[p].code = "OK"
             => \A i \in 1..Len(result[p].pages) :
                   \E c \in history :
                       c.k = "json" /\ result[p].pages[i] = EntryOf(call[p].op, c)

\* A list was returned with p1 only while a complete temp file was there.
C38_Witness ==
    /\ Ended(1, "listPages")
    /\ result[1].code = "OK"
    /\ Len(result[1].pages) = 1
    /\ Exists(OrphanPath)
    /\ files[OrphanPath].k = "json"

\* A backup was returned while a write was between its write and rename.
C38_WitnessInFlight ==
    /\ Ended(1, "backupAllPages")
    /\ result[1].code = "OK"
    /\ pc[2] = "w_rename"
    /\ before[1].pcs[2] = "w_rename"
    /\ Exists(lv[2].tempPath)


\* C39 Every POST /upload with a file that is not answered 201 leaves no
\* file of the request in the upload directory and leaves the page as it
\* was; one answered 201 has added exactly one attachment record to the
\* page, and the file of the record is in the upload directory.
C39_UploadLeavesNoFile ==
    \A p \in Procs :
        Ended(p, "POST /upload") /\ call[p].body.file # ""
        => IF result[p].status = 201
           THEN /\ Stored(p).k = "json"
                /\ before[p].file.k = "json"
                /\ Stored(p).v.attachments =
                       Append(before[p].file.v.attachments,
                              [filename |-> call[p].body.file])
                /\ Exists(UploadPathOf(call[p].body.file))
           ELSE /\ ~Exists(UploadPathOf(call[p].body.file))
                /\ Text(Stored(p)) = Text(before[p].file)


\* C40 Every page POST /generators/:id/generate answers with, for a
\* built-in or a registered custom generator, is accepted by POST /pages
\* when it is submitted unchanged and its id is unused: unless an I/O
\* request fails the answer is 201.
C40_GeneratedPageIsAccepted ==
    /\ Ended(2, "POST /pages")
    /\ faults = 0
    /\ before[2].file = Absent
    => result[2].status = 201

====
